---- MODULE Spec2Model ----
(***************************************************************************)
(* State-machine model of the stabilisation layer of matiasvs/IA-face:     *)
(*   - MindARTracker  (src/unnamed/part_001, anti-jitter filter chain;     *)
(*                     src/unnamed/part_003, lerp-only variant)            *)
(*   - OpenCVTracker  (src/unnamed/part_004, basic and strict variants)    *)
(*                                                                         *)
(* Numbers.  The program computes in IEEE doubles.  The model computes in  *)
(* fixed point: a length is an integer count of 1/10000 scene units, an    *)
(* orientation is a rotation about one fixed axis in 1/100 degree, and a   *)
(* product with a fractional factor is rounded to the nearest unit.  A     *)
(* Vector3 is a triple <<x, y, z>>.  Comparisons of Euclidean distances    *)
(* are made on the squares, which is exact.                                *)
(***************************************************************************)
EXTENDS Integers, Sequences, FiniteSets, TLC

\* ------------------------------------------------------------------ bounds
\* Number of render-loop callbacks explored in one behaviour.
MaxFrames == 6

\* ------------------------------------------------- MindARTracker constants
\* this.historySize = 5
historySize == 5
\* this.movementThreshold = 0.001  (in 1/10000 units)
movementThreshold == 10
\* this.maxVelocity = 0.1  (in 1/10000 units)
maxVelocity == 1000
\* this.smoothingFactor = 0.15 (part_001), in percent
smoothingFactor == 15
\* this.smoothingFactor = 0.1 (part_003), in percent
smoothingFactorBasic == 10

VARIABLES
    tracker,            \* which class this behaviour instantiates
    factor,             \* this.smoothingFactor, in percent
    mindarThree,        \* this.mindarThree: "null" or "created"
    engine,             \* the MindAR engine is started (mindarThree.start() resolved)
    model,              \* this.model: "null", "gltf" or "cube"
    placed,             \* the object added to the anchor group / scene: "none", "gltf", "cube"
    isRunning,          \* this.isRunning
    animationLoop,      \* the callback given to renderer.setAnimationLoop: "null" or "loop"
    startPc,            \* where a pending start() call is suspended
    anchorVisible,      \* this.anchor.group.visible
    anchorPosition,     \* this.anchor.group.position
    anchorQuaternion,   \* this.anchor.group.quaternion
    targetPosition,     \* this.targetPosition
    targetQuaternion,   \* this.targetQuaternion
    smoothedPosition,   \* this.smoothedPosition
    smoothedQuaternion, \* this.smoothedQuaternion
    positionHistory,    \* this.positionHistory
    quaternionHistory,  \* this.quaternionHistory
    lastPosition,       \* this.lastPosition
    velocity,           \* this.velocity
    initPc,             \* OpenCVTracker.init(): where it is suspended, or how it settled
    renderer,           \* this.renderer exists (initThreeJS has run)
    handles,            \* referenceImage, referenceKeypoints, referenceDescriptors, detector, matcher
    deleteCalls,        \* delete() calls made on each of those native handles
    homography,         \* this.homography: the Mat findHomography returned, [id, m]; id 0 is null
    matDeleteCalls,     \* delete() calls made on each homography Mat, by id
    srcObject,          \* this.video.srcObject: "null" or "stream"
    tracksStopped,      \* every track of the stream has been stopped
    videoReady,         \* this.video.videoWidth and videoHeight are non-zero
    isTracking,         \* this.isTracking
    smoothedRotation,   \* this.smoothedRotation.z
    smoothedScale,      \* this.smoothedScale
    modelPosition,      \* this.model.position
    modelRotation,      \* this.model.rotation.z
    modelScale,         \* this.model.scale
    modelVisible,       \* this.model.visible
    lastFrameTime,      \* this.lastFrameTime
    now,                \* Date.now(), in ms since construction + 1000
    rafLoops,           \* requestAnimationFrame loops that start() has set going
    goodMatches,        \* goodMatches.length in the latest detection pass, -1 if never computed
    positionAttr,       \* FaceOccluder: faceGeometry.attributes.position, a sequence of vertices
    indexBuf,           \* FaceOccluder: faceGeometry.index, a sequence of triangles
    bodyPosition,       \* FaceOccluder: bodyOccluderMesh.position
    facePosition,       \* SceneManager: faceObject.position
    faceRotation,       \* SceneManager: faceObject's rotation, as the basis' x axis (unit = 10000)
    landmarkCount,      \* landmarks.length given to the latest updateFace, -1 if none
    escaped,            \* the latest detector callback ended by an exception leaving it
    stopped,            \* stop() has returned on a started tracker and start() was not called since
    frames,             \* render-loop callbacks run so far
    samples,            \* raw samples appended to the history so far
    lastPath,           \* the path the latest callback took
    renderCalls,        \* renderer.render calls issued by the latest callback
    lastPass,           \* Date.now() read by the latest detection pass that got past the throttle, -1 if none
    liveTemps,          \* native temporaries the latest processFrame() allocated and did not delete
    handObjects,        \* SceneManager: this.handObjects, <<>> before the pool is made
    isHandTrackingEnabled, \* page script: the hand toggle
    handPc,             \* Camera.onFrame: "idle", "awaitFace" or "awaitHand"
    images,             \* CompilerTool: this.images, the types of the files kept
    compiledData,       \* CompilerTool: this.compiledData, -1 for null, else the targets in the buffer
    compiles,           \* CompilerTool: the compile() calls in flight, in call order
    compiledSinceReset  \* a compile() completed successfully since construction or the last reset()

mindVars == <<mindarThree, engine, model, placed, isRunning, animationLoop, startPc,
              anchorVisible, anchorPosition, anchorQuaternion,
              targetPosition, targetQuaternion,
              smoothedPosition, smoothedQuaternion,
              positionHistory, quaternionHistory, lastPosition, velocity>>

filterVars == <<targetPosition, targetQuaternion, smoothedPosition, smoothedQuaternion,
                positionHistory, quaternionHistory, lastPosition, velocity>>

cvVars == <<initPc, renderer, handles, deleteCalls, homography, matDeleteCalls,
            srcObject, tracksStopped, videoReady, isTracking,
            smoothedRotation, smoothedScale,
            modelPosition, modelRotation, modelScale, modelVisible,
            lastFrameTime, now, rafLoops, goodMatches>>

faceVars == <<positionAttr, indexBuf, bodyPosition, facePosition, faceRotation,
              landmarkCount, escaped>>

ghostVars == <<frames, samples, lastPath, renderCalls, lastPass, liveTemps>>

handVars == <<handObjects, isHandTrackingEnabled, handPc>>

toolVars == <<images, compiledData, compiles, compiledSinceReset>>

vars == <<tracker, factor, mindVars, cvVars, faceVars, stopped, ghostVars, handVars, toolVars>>

\* ------------------------------------------------------------ arithmetic
\* n / d rounded to the nearest integer (d > 0), as a double product rounds.
RoundDiv(n, d) == (2 * n + d) \div (2 * d)

RECURSIVE SqrtSearch(_, _, _)
SqrtSearch(n, lo, hi) ==
    IF lo >= hi THEN lo
    ELSE LET mid == (lo + hi + 1) \div 2
         IN  IF mid * mid <= n THEN SqrtSearch(n, mid, hi) ELSE SqrtSearch(n, lo, mid - 1)

\* Math.sqrt on a non-negative fixed-point square: the floor of the root.
Sqrt(n) == SqrtSearch(n, 0, 46340)

\* ---------------------------------------------------- THREE.Vector3 methods
Zero3 == <<0, 0, 0>>
VAdd(a, b) == <<a[1] + b[1], a[2] + b[2], a[3] + b[3]>>
VSub(a, b) == <<a[1] - b[1], a[2] - b[2], a[3] - b[3]>>
LengthSq(a) == a[1] * a[1] + a[2] * a[2] + a[3] * a[3]
DistanceToSquared(a, b) == LengthSq(VSub(a, b))
DivideScalar(a, n) == <<RoundDiv(a[1], n), RoundDiv(a[2], n), RoundDiv(a[3], n)>>

\* v.lerp(target, alpha): v += (target - v) * alpha, alpha in percent.
Lerp(v, target, alphaPct) ==
    <<v[1] + RoundDiv((target[1] - v[1]) * alphaPct, 100),
      v[2] + RoundDiv((target[2] - v[2]) * alphaPct, 100),
      v[3] + RoundDiv((target[3] - v[3]) * alphaPct, 100)>>

\* v.normalize().multiplyScalar(s): v / |v| * s.
SetLength(v, s) ==
    LET len == Sqrt(LengthSq(v))
    IN  IF len = 0 THEN Zero3
        ELSE <<RoundDiv(v[1] * s, len), RoundDiv(v[2] * s, len), RoundDiv(v[3] * s, len)>>

\* -------------------------------------------------- THREE.Quaternion.slerp
\* Rotations about one axis less than 180 degrees apart: slerp interpolates
\* the angle linearly.  The weight is num/den.
Slerp(q, target, num, den) == q + RoundDiv((target - q) * num, den)

\* ------------------------------------------------ OpenCVTracker handles
HandleNames == {"referenceImage", "referenceKeypoints", "referenceDescriptors",
                "detector", "matcher"}

\* Number of OpenCVTracker render() calls explored in one behaviour.
MaxCvFrames == 3
\* Cleanup calls explored in one behaviour.
MaxCleanups == 2
\* requestAnimationFrame loops explored in one behaviour.
MaxLoops == 2

\* ------------------------------------------------ OpenCVTracker constants
\* 2 * tan(fov / 2) * camera.position.z with fov = 60 degrees, z = 5, in 1/10000
visibleHeightAtZ0 == 57735
\* the canvas takes the video's size <<width, height>>, in pixels
CanvasSize == <<640, 480>>
\* <<referenceImage.cols / 2, referenceImage.rows / 2>>, in pixels
RefCenter == <<100, 50>>

IsStrict == tracker = "opencvStrict"
IsCv == tracker \in {"opencv", "opencvStrict"}

\* Mutant: the minimum is one lower.
EnoughMatchesOffByOne(n) == IF IsStrict THEN n >= 7 ELSE n >= 3

\* if (goodMatches.length >= 4)  /  >= 8 in the strict variant
EnoughMatches(n) == IF IsStrict THEN n >= 8 ELSE n >= 4

\* this.smoothingFactor = 0.1 / 0.05 in the strict variant, in percent
CvSmoothingFactor == IF IsStrict THEN 5 ELSE 10

\* Mutant: the interval is half as long.
ThrottledHalfInterval(currentTime, last) == 30 * (currentTime - last) < 500

\* currentTime - this.lastFrameTime < this.frameInterval, frameInterval = 1000 / 30
Throttled(currentTime, last) == 30 * (currentTime - last) < 1000

\* A homography: entries in 1/100 (h02, h12 in 1/100 pixel).
Mat3(h00, h01, h02, h10, h11, h12, h20, h21, h22) ==
    [h00 |-> h00, h01 |-> h01, h02 |-> h02,
     h10 |-> h10, h11 |-> h11, h12 |-> h12,
     h20 |-> h20, h21 |-> h21, h22 |-> h22]

\* Matrices cv.findHomography may return (besides an empty Mat).
HUnit == Mat3(100, 0, 22000, 0, 100, 19000, 0, 0, 100)       \* scale 1, centre at (320, 240)
HTurned == Mat3(0, -200, 50000, 200, 0, 10000, 0, 0, 100)    \* scale 2, a quarter turn
HHuge == Mat3(1000, 0, -68000, 0, 1000, -26000, 0, 0, 100)   \* scale 10, centre at (320, 240)
HTiny == Mat3(5, 0, 31500, 0, 5, 23750, 0, 0, 100)           \* scale 0.05, centre at (320, 240)
HFar == Mat3(100, 0, 182000, 0, 100, 19000, 0, 0, 100)       \* scale 1, centre at (1920, 240)
Homographies == [unit |-> HUnit, turned |-> HTurned, huge |-> HHuge,
                 tiny |-> HTiny, far |-> HFar]
MatNames == DOMAIN Homographies

\* A similarity of scale k (in 1/100) that sends the reference image's centre
\* to the pixel <<x, y>>.
Placing(k, x, y) ==
    Mat3(k, 0, 100 * x - k * RefCenter[1], 0, k, 100 * y - k * RefCenter[2], 0, 0, 100)

\* Matrices at the edges of what the strict variant accepts: the centre on
\* and one pixel beyond each bound of the position check, the scale at the
\* ends of the band.
EdgeHomographies ==
    [onLeft |-> Placing(100, -CanvasSize[1], 240),
     offLeft |-> Placing(100, -CanvasSize[1] - 1, 240),
     onRight |-> Placing(100, 2 * CanvasSize[1], 240),
     offRight |-> Placing(100, 2 * CanvasSize[1] + 1, 240),
     onTop |-> Placing(100, 320, -CanvasSize[2]),
     offTop |-> Placing(100, 320, -CanvasSize[2] - 1),
     onBottom |-> Placing(100, 320, 2 * CanvasSize[2]),
     offBottom |-> Placing(100, 320, 2 * CanvasSize[2] + 1),
     smallest |-> Placing(10, 320, 240),
     largest |-> Placing(500, 320, 240)]

AllHomographies == Homographies @@ EdgeHomographies

\* cv.perspectiveTransform of one point, in pixels
PerspectiveTransform(h, p) ==
    LET w == h.h20 * p[1] + h.h21 * p[2] + h.h22
    IN  <<RoundDiv(h.h00 * p[1] + h.h01 * p[2] + h.h02, w),
          RoundDiv(h.h10 * p[1] + h.h11 * p[2] + h.h12, w)>>

\* scaleX + scaleY, in 1/100: twice the scale
ScaleSum(h) == Sqrt(h.h00 * h.h00 + h.h10 * h.h10) + Sqrt(h.h01 * h.h01 + h.h11 * h.h11)

\* Math.atan2(y, x) in 1/100 degree: exact on the axes and diagonals,
\* linear in y/x (or x/y) inside an octant.
Atan2(y, x) ==
    LET ax == IF x < 0 THEN -x ELSE x
        ay == IF y < 0 THEN -y ELSE y
        first == IF ax = 0 /\ ay = 0 THEN 0
                 ELSE IF ay <= ax THEN RoundDiv(4500 * ay, ax)
                 ELSE 9000 - RoundDiv(4500 * ax, ay)
        upper == IF x < 0 THEN 18000 - first ELSE first
    IN  IF y < 0 THEN -upper ELSE upper

\* Mutant: a centre on the bound is rejected too.
OutOfBoundsInclusive(pt) ==
    \/ pt[1] <= -CanvasSize[1]
    \/ pt[1] >= CanvasSize[1] * 2
    \/ pt[2] <= -CanvasSize[2]
    \/ pt[2] >= CanvasSize[2] * 2

\* strict variant: x < -W || x > 2W || y < -H || y > 2H
OutOfBounds(pt) ==
    \/ pt[1] < -CanvasSize[1]
    \/ pt[1] > CanvasSize[1] * 2
    \/ pt[2] < -CanvasSize[2]
    \/ pt[2] > CanvasSize[2] * 2

\* Mutant: the upper end of the band is not checked.
ScaleOutOfBandLowOnly(h) == ScaleSum(h) < 20

\* strict variant: scale < 0.1 || scale > 5.0
ScaleOutOfBand(h) == ScaleSum(h) < 20 \/ ScaleSum(h) > 1000

\* The observation is rejected: update3DObject returns before any update.
Rejected == [accepted |-> FALSE, position |-> Zero3, rotation |-> 0, scale |-> 0]

\* The pose update3DObject aims at, or Rejected.
TargetStrict(h) ==
    LET pt == PerspectiveTransform(h, RefCenter)
    IN  IF OutOfBounds(pt) THEN Rejected
        ELSE IF ScaleOutOfBand(h) THEN Rejected
        ELSE [accepted |-> TRUE,
              position |-> <<RoundDiv((2 * pt[1] - CanvasSize[1]) * visibleHeightAtZ0,
                                      2 * CanvasSize[2]),
                             -RoundDiv((2 * pt[2] - CanvasSize[2]) * visibleHeightAtZ0,
                                       2 * CanvasSize[2]),
                             0>>,
              rotation |-> -Atan2(h.h10, h.h00),
              scale |-> ScaleSum(h) * 25]

\* basic variant: no rejection; the translation column is the position and
\* the scale is clamped to [0.1, 2].
TargetBasic(h) ==
    LET half == ScaleSum(h) * 25
    IN  [accepted |-> TRUE,
         position |-> <<RoundDiv((2 * h.h02 - 100 * CanvasSize[1]) * 300, CanvasSize[1]),
                        -RoundDiv((2 * h.h12 - 100 * CanvasSize[2]) * 300, CanvasSize[2]),
                        0>>,
         rotation |-> Atan2(h.h10, h.h00),
         scale |-> IF half < 1000 THEN 1000 ELSE IF half > 20000 THEN 20000 ELSE half]

Target(h) == IF IsStrict THEN TargetStrict(h) ELSE TargetBasic(h)

\* ------------------------------------------------ detector input (external)
\* Poses the MindAR engine may write to the anchor: position, orientation.
NearOrigin == <<5, 0, 0>>
FarPoint == <<12000, 16000, 0>>
RawPoses == { <<Zero3, 0>>, <<NearOrigin, 0>>, <<FarPoint, 3000>> }

\* ------------------------------------------- MindARTracker filter stages
\* Mutant: the history is never trimmed.
PushHistoryNoShift(h, x) == Append(h, x)

\* positionHistory.push(x); if (length > historySize) shift()
PushHistory(h, x) ==
    LET pushed == Append(h, x)
    IN  IF Len(pushed) > historySize THEN Tail(pushed) ELSE pushed

\* quaternionHistory.push(q); shifted when positionHistory overflowed
PushQuaternion(qh, q, ph) ==
    LET pushed == Append(qh, q)
    IN  IF Len(Append(ph, Zero3)) > historySize THEN Tail(pushed) ELSE pushed

RECURSIVE SumAxis(_, _)
SumAxis(h, k) == IF h = <<>> THEN 0 ELSE Head(h)[k] + SumAxis(Tail(h), k)

\* positionHistory.forEach(pos => avgPosition.add(pos))
SumPositions(h) == <<SumAxis(h, 1), SumAxis(h, 2), SumAxis(h, 3)>>

\* Mutant: the sum is divided by the capacity of the history.
AvgPositionByCapacity(h) == DivideScalar(SumPositions(h), historySize)

\* avgPosition: the sum of the history divided by its length
AvgPosition(h) == DivideScalar(SumPositions(h), Len(h))

RECURSIVE SlerpFrom(_, _, _)
SlerpFrom(avg, qh, i) ==
    IF i > Len(qh) THEN avg
    ELSE SlerpFrom(Slerp(avg, qh[i], 1, i), qh, i + 1)

\* avgQuaternion: history[0], then slerp toward history[i] by 1/(i+1), i = 1..
\* (TLA+ sequences start at 1, so the weight of qh[i] is 1/i.)
AvgQuaternion(qh) == SlerpFrom(qh[1], qh, 2)

\* Mutant: the visibility guard is missing.
ObservedAlways(visible) == TRUE

\* if (this.anchor.group.visible)
Observed(visible) == visible

\* Mutant: the squared distance is compared with the threshold.
InDeadZoneSquared(smoothed, avg) == DistanceToSquared(smoothed, avg) < movementThreshold

\* Mutant: the dead zone is half as wide.
InDeadZoneHalf(smoothed, avg) ==
    4 * DistanceToSquared(smoothed, avg) < movementThreshold * movementThreshold

\* Mutant: the dead zone is twice as wide.
InDeadZoneDoubled(smoothed, avg) ==
    DistanceToSquared(smoothed, avg) < 4 * movementThreshold * movementThreshold

\* distance < this.movementThreshold
InDeadZone(smoothed, avg) ==
    DistanceToSquared(smoothed, avg) < movementThreshold * movementThreshold

\* if (velocity.length() > maxVelocity) velocity.normalize().multiplyScalar(maxVelocity)
CapVelocity(v) ==
    IF LengthSq(v) > maxVelocity * maxVelocity THEN SetLength(v, maxVelocity) ELSE v

\* Mutant: the stabilized position jumps to the average.
ApproachPositionSnap(smoothed, avg) == avg

\* Mutant: the interpolation weight is 1 + smoothingFactor.
ApproachPositionExtrapolate(smoothed, avg) == Lerp(smoothed, avg, 100 + factor)

\* smoothedPosition.lerp(avgPosition, smoothingFactor)
ApproachPosition(smoothed, avg) == Lerp(smoothed, avg, factor)

\* smoothedQuaternion.slerp(avgQuaternion, smoothingFactor)
ApproachQuaternion(smoothed, avg) == Slerp(smoothed, avg, factor, 100)

\* ------------------------------------------------------------------ Init
\* Fields as the constructors leave them.  A behaviour instantiates one class;
\* the fields of the other classes stay at these values.
Fields ==
    /\ mindarThree = "null"
    /\ engine = FALSE
    /\ model = "null"
    /\ placed = "none"
    /\ isRunning = FALSE
    /\ animationLoop = "null"
    /\ startPc = "idle"
    /\ anchorVisible = FALSE
    /\ anchorPosition = Zero3
    /\ anchorQuaternion = 0
    /\ targetPosition = Zero3
    /\ targetQuaternion = 0
    /\ smoothedPosition = Zero3
    /\ smoothedQuaternion = 0
    /\ positionHistory = <<>>
    /\ quaternionHistory = <<>>
    /\ lastPosition = Zero3
    /\ velocity = Zero3
    /\ initPc = "new"
    /\ renderer = FALSE
    /\ handles = [n \in HandleNames |-> "null"]
    /\ deleteCalls = [n \in HandleNames |-> 0]
    /\ homography = [id |-> 0, m |-> "null"]
    /\ matDeleteCalls = <<>>
    /\ srcObject = "null"
    /\ tracksStopped = FALSE
    /\ videoReady = FALSE
    /\ isTracking = FALSE
    /\ smoothedRotation = 0
    /\ smoothedScale = 10000
    /\ modelPosition = Zero3
    /\ modelRotation = 0
    /\ modelScale = 10000
    /\ modelVisible = TRUE
    /\ lastFrameTime = 0
    /\ now = 1000
    /\ rafLoops = 0
    /\ goodMatches = -1
    /\ positionAttr = <<>>
    /\ indexBuf = <<>>
    /\ bodyPosition = Zero3
    /\ facePosition = Zero3
    /\ faceRotation = <<10000, 0, 0>>
    /\ landmarkCount = -1
    /\ escaped = FALSE
    /\ stopped = FALSE
    /\ frames = 0
    /\ samples = 0
    /\ lastPath = "none"
    /\ renderCalls = 0
    /\ lastPass = -1
    /\ liveTemps = {}
    /\ handObjects = <<>>
    /\ isHandTrackingEnabled = TRUE
    /\ handPc = "idle"
    /\ images = <<>>
    /\ compiledData = -1
    /\ compiles = <<>>
    /\ compiledSinceReset = FALSE

\* this.smoothingFactor as the class's constructor sets it
DefaultFactor ==
    IF tracker = "mindar" THEN smoothingFactor
    ELSE IF tracker = "mindarBasic" THEN smoothingFactorBasic
    ELSE IF tracker = "opencvStrict" THEN 5 ELSE 10

InitMind(kind) == tracker = kind /\ Fields /\ factor = DefaultFactor

IsMind == tracker \in {"mindar", "mindarBasic"}

\* ------------------------------------------------- MindARTracker.start()
\* start() up to its first await: init() when there is no mindarThree yet
\* (suspends in loadModel), else mindarThree.start().
MindStartCall ==
    /\ IsMind
    /\ startPc = "idle"
    /\ IF mindarThree = "null"
       THEN /\ mindarThree' = "created"
            /\ startPc' = "awaitLoad"
       ELSE /\ startPc' = "awaitEngine"
            /\ UNCHANGED mindarThree
    /\ stopped' = FALSE
    /\ UNCHANGED <<tracker, handVars, toolVars, factor, faceVars, cvVars, engine, model, placed, isRunning, animationLoop,
                   anchorVisible, anchorPosition, anchorQuaternion,
                   filterVars, ghostVars>>

\* Mutant: the loader's error callback rejects and adds nothing, so start()
\* throws.
MindLoadModelRejecting ==
    /\ IsMind
    /\ startPc = "awaitLoad"
    /\ \E ok \in BOOLEAN :
         IF ok
         THEN /\ model' = "gltf"
              /\ placed' = "gltf"
              /\ smoothedPosition' = anchorPosition
              /\ smoothedQuaternion' = anchorQuaternion
              /\ startPc' = "awaitEngine"
         ELSE /\ startPc' = "idle"
              /\ UNCHANGED <<placed, model, smoothedPosition, smoothedQuaternion>>
    /\ UNCHANGED <<tracker, handVars, toolVars, factor, faceVars, cvVars, stopped, mindarThree, engine, isRunning,
                   animationLoop, anchorVisible, anchorPosition, anchorQuaternion,
                   targetPosition, targetQuaternion, positionHistory,
                   quaternionHistory, lastPosition, velocity, ghostVars>>

\* loadModel(): the GLTF loader calls back with the model or with an error;
\* both resolve, and start() goes on to await mindarThree.start().
MindLoadModel ==
    /\ IsMind
    /\ startPc = "awaitLoad"
    /\ \E ok \in BOOLEAN :
         IF ok
         THEN /\ model' = "gltf"
              /\ placed' = "gltf"
              /\ smoothedPosition' = anchorPosition
              /\ smoothedQuaternion' = anchorQuaternion
         ELSE /\ placed' = "cube"    \* the fallback cube is not kept in this.model
              /\ UNCHANGED <<model, smoothedPosition, smoothedQuaternion>>
    /\ startPc' = "awaitEngine"
    /\ UNCHANGED <<tracker, handVars, toolVars, factor, faceVars, cvVars, stopped, mindarThree, engine, isRunning, animationLoop,
                   anchorVisible, anchorPosition, anchorQuaternion,
                   targetPosition, targetQuaternion, positionHistory,
                   quaternionHistory, lastPosition, velocity, ghostVars>>

\* await mindarThree.start() settles: on success isRunning = true and the
\* animation loop is installed; on failure start() rethrows.
MindEngineStart ==
    /\ IsMind
    /\ startPc = "awaitEngine"
    /\ startPc' = "idle"
    /\ \E ok \in BOOLEAN :
         IF ok
         THEN /\ engine' = TRUE
              /\ isRunning' = TRUE
              /\ animationLoop' = "loop"
         ELSE UNCHANGED <<engine, isRunning, animationLoop>>
    /\ UNCHANGED <<tracker, handVars, toolVars, factor, faceVars, cvVars, stopped, mindarThree, model, placed,
                   anchorVisible, anchorPosition, anchorQuaternion,
                   filterVars, ghostVars>>

\* -------------------------------------------------- MindARTracker.stop()
\* Mutant: mindarThree.stop() is called outside a try block, so what it
\* throws leaves stop() before the loop is detached.
MindStopOutcomeUnguarded(throws) ==
    IF mindarThree # "null" /\ ~throws
    THEN [engine |-> FALSE, animationLoop |-> "null", isRunning |-> FALSE, escapes |-> FALSE]
    ELSE [engine |-> engine, animationLoop |-> animationLoop, isRunning |-> isRunning,
          escapes |-> mindarThree # "null" /\ throws]

\* What stop() leaves behind, mindarThree.stop() throwing or not: with a
\* mindarThree the engine is stopped (a throw is caught and logged), the
\* animation loop is set to null and isRunning is cleared; without one
\* nothing happens.  escapes: an exception leaves stop().
MindStopOutcome(throws) ==
    IF mindarThree # "null"
    THEN [engine |-> FALSE, animationLoop |-> "null", isRunning |-> FALSE, escapes |-> FALSE]
    ELSE [engine |-> engine, animationLoop |-> animationLoop, isRunning |-> isRunning,
          escapes |-> FALSE]

MindStop ==
    /\ IsMind
    /\ \E o \in {MindStopOutcome(throws) : throws \in BOOLEAN} :
             /\ engine' = o.engine
             /\ animationLoop' = o.animationLoop
             /\ isRunning' = o.isRunning
    /\ stopped' = (stopped \/ isRunning)
    /\ UNCHANGED <<tracker, handVars, toolVars, factor, faceVars, cvVars, mindarThree, model, placed, startPc,
                   anchorVisible, anchorPosition, anchorQuaternion,
                   filterVars, ghostVars>>

\* ------------------------------------------------- the MindAR engine
\* While started, the engine reports the target found (and writes its pose
\* to the anchor) or lost.
MindDetector ==
    /\ IsMind
    /\ engine
    /\ \/ /\ anchorVisible' = FALSE
          /\ UNCHANGED <<anchorPosition, anchorQuaternion>>
       \/ \E pose \in RawPoses :
            /\ anchorVisible' = TRUE
            /\ anchorPosition' = pose[1]
            /\ anchorQuaternion' = pose[2]
    /\ UNCHANGED <<tracker, handVars, toolVars, factor, faceVars, cvVars, stopped, mindarThree, engine, model, placed, isRunning, animationLoop,
                   startPc, filterVars, ghostVars>>

\* Mutant: the dead-zone branch does not return after rendering.
MindRenderCallsFallThrough(path) ==
    IF path = "notRunning" THEN 0
    ELSE IF path = "deadZone" THEN 2
    ELSE 1

\* renderer.render calls of one animation-loop callback, by the path taken:
\* none before the isRunning guard, one before the dead zone's return, one
\* at the end of the callback.
MindRenderCalls(path) ==
    IF path = "notRunning" THEN 0
    ELSE IF path = "deadZone" THEN 1
    ELSE 1

\* ------------------------------------- MindARTracker animation-loop callback
\* part_001: rolling average, dead zone, velocity cap, lerp.  The callback
\* reads the anchor's pose as the engine left it: visible, rawPosition,
\* rawQuaternion.
MindCallback(visible, rawPosition, rawQuaternion) ==
    /\ frames' = frames + 1
    /\ IF ~isRunning
       THEN /\ lastPath' = "notRunning"
            /\ anchorPosition' = rawPosition
            /\ anchorQuaternion' = rawQuaternion
            /\ UNCHANGED <<samples, filterVars>>
       ELSE IF ~Observed(visible)
       THEN /\ lastPath' = "invisible"
            /\ anchorPosition' = rawPosition
            /\ anchorQuaternion' = rawQuaternion
            /\ UNCHANGED <<samples, filterVars>>
       ELSE LET ph == PushHistory(positionHistory, rawPosition)
                qh == PushQuaternion(quaternionHistory, rawQuaternion, positionHistory)
                avgPosition == AvgPosition(ph)
                avgQuaternion == AvgQuaternion(qh)
            IN  /\ targetPosition' = rawPosition
                /\ targetQuaternion' = rawQuaternion
                /\ positionHistory' = ph
                /\ samples' = samples + 1
                /\ quaternionHistory' = qh
                /\ IF InDeadZone(smoothedPosition, avgPosition)
                   THEN /\ lastPath' = "deadZone"
                        /\ anchorPosition' = smoothedPosition
                        /\ anchorQuaternion' = smoothedQuaternion
                        /\ UNCHANGED <<smoothedPosition, smoothedQuaternion,
                                       lastPosition, velocity>>
                   ELSE /\ lastPath' = "updated"
                        /\ velocity' = CapVelocity(VSub(avgPosition, lastPosition))
                        /\ lastPosition' = avgPosition
                        /\ smoothedPosition' = ApproachPosition(smoothedPosition, avgPosition)
                        /\ smoothedQuaternion' = ApproachQuaternion(smoothedQuaternion, avgQuaternion)
                        /\ anchorPosition' = smoothedPosition'
                        /\ anchorQuaternion' = smoothedQuaternion'
    /\ renderCalls' = MindRenderCalls(lastPath')

MindFrame ==
    /\ tracker = "mindar"
    /\ animationLoop = "loop"
    /\ frames < MaxFrames
    /\ MindCallback(anchorVisible, anchorPosition, anchorQuaternion)
    /\ UNCHANGED <<tracker, handVars, toolVars, factor, faceVars, cvVars, stopped, mindarThree, engine, model, placed, isRunning,
                   animationLoop, startPc, anchorVisible, lastPass, liveTemps>>

\* part_003: lerp only.
MindFrameBasic ==
    /\ tracker = "mindarBasic"
    /\ animationLoop = "loop"
    /\ frames < MaxFrames
    /\ frames' = frames + 1
    /\ IF ~isRunning
       THEN /\ lastPath' = "notRunning"
            /\ UNCHANGED <<samples, anchorPosition, anchorQuaternion, filterVars>>
       ELSE IF ~Observed(anchorVisible)
       THEN /\ lastPath' = "invisible"
            /\ UNCHANGED <<samples, anchorPosition, anchorQuaternion, filterVars>>
       ELSE /\ lastPath' = "updated"
            /\ samples' = samples + 1
            /\ targetPosition' = anchorPosition
            /\ targetQuaternion' = anchorQuaternion
            /\ smoothedPosition' = Lerp(smoothedPosition, anchorPosition, factor)
            /\ smoothedQuaternion' = Slerp(smoothedQuaternion, anchorQuaternion, factor, 100)
            /\ anchorPosition' = smoothedPosition'
            /\ anchorQuaternion' = smoothedQuaternion'
            /\ UNCHANGED <<positionHistory, quaternionHistory, lastPosition, velocity>>
    /\ renderCalls' = MindRenderCalls(lastPath')
    /\ UNCHANGED <<tracker, handVars, toolVars, factor, faceVars, cvVars, stopped, mindarThree, engine, model, placed, isRunning,
                   animationLoop, startPc, anchorVisible, lastPass, liveTemps>>

\* ======================================================== OpenCVTracker
\* goodMatches.length values the matcher may yield: one short of the
\* variant's minimum, and the minimum
MatchCounts == IF IsStrict THEN {7, 8} ELSE {3, 4}

\* ms elapsed between two events of the page (a 50 Hz refresh, a skipped
\* one; nothing when two loops run in the same refresh)
Elapsed == IF rafLoops > 1 THEN {0, 20, 40} ELSE {20, 40}

\* init() up to its first pending await: waitForOpenCV resolves, initThreeJS
\* creates the renderer, loadReferenceImage waits for the image.
CvInitCall ==
    /\ IsCv
    /\ initPc = "new"
    /\ initPc' = "awaitReference"
    /\ renderer' = TRUE
    /\ UNCHANGED <<tracker, handVars, toolVars, factor, faceVars, mindVars, stopped, ghostVars,
                   handles, deleteCalls, homography, matDeleteCalls,
                   srcObject, tracksStopped, videoReady, isTracking,
                   smoothedRotation, smoothedScale,
                   modelPosition, modelRotation, modelScale, modelVisible,
                   lastFrameTime, now, rafLoops, goodMatches>>

\* img.onload / img.onerror; on load initDetector() runs and load3DModel starts.
CvReferenceLoaded ==
    /\ IsCv
    /\ initPc = "awaitReference"
    /\ \E ok \in BOOLEAN :
         IF ok
         THEN /\ handles' = [n \in HandleNames |-> "live"]
              /\ initPc' = "awaitModel"
         ELSE /\ initPc' = "rejected"
              /\ UNCHANGED handles
    /\ UNCHANGED <<tracker, handVars, toolVars, factor, faceVars, mindVars, stopped, ghostVars,
                   renderer, deleteCalls, homography, matDeleteCalls,
                   srcObject, tracksStopped, videoReady, isTracking,
                   smoothedRotation, smoothedScale,
                   modelPosition, modelRotation, modelScale, modelVisible,
                   lastFrameTime, now, rafLoops, goodMatches>>

\* load3DModel(): the model, or the fallback cube; both resolve.
CvModelLoaded ==
    /\ IsCv
    /\ initPc = "awaitModel"
    /\ initPc' = "awaitVideo"
    /\ \E ok \in BOOLEAN :
         IF ok
         THEN /\ model' = "gltf"
              /\ placed' = "gltf"
              /\ modelScale' = 5000
         ELSE /\ model' = "cube"
              /\ placed' = "cube"
              /\ UNCHANGED modelScale
    /\ UNCHANGED <<tracker, handVars, toolVars, factor, faceVars, stopped, ghostVars,
                   mindarThree, engine, isRunning, animationLoop, startPc,
                   anchorVisible, anchorPosition, anchorQuaternion, filterVars,
                   renderer, handles, deleteCalls, homography, matDeleteCalls,
                   srcObject, tracksStopped, videoReady, isTracking,
                   smoothedRotation, smoothedScale,
                   modelPosition, modelRotation, modelVisible,
                   lastFrameTime, now, rafLoops, goodMatches>>

\* getUserMedia outcome of startVideo(): the strict variant falls back from
\* the rear to the front camera.
StreamAcquired(rear, front) == IF IsStrict THEN rear \/ front ELSE rear

\* startVideo() on a failed acquisition: the strict variant rethrows, the
\* basic variant logs the error and returns.
InitAfterVideoFailure == IF IsStrict THEN "rejected" ELSE "initialized"

CvStartVideo ==
    /\ IsCv
    /\ initPc = "awaitVideo"
    /\ \E rear \in BOOLEAN, front \in BOOLEAN :
         IF StreamAcquired(rear, front)
         THEN /\ srcObject' = "stream"
              /\ videoReady' = TRUE
              /\ initPc' = "initialized"
         ELSE /\ initPc' = InitAfterVideoFailure
              /\ UNCHANGED <<srcObject, videoReady>>
    /\ UNCHANGED <<tracker, handVars, toolVars, factor, faceVars, mindVars, stopped, ghostVars,
                   renderer, handles, deleteCalls, homography, matDeleteCalls,
                   tracksStopped, isTracking,
                   smoothedRotation, smoothedScale,
                   modelPosition, modelRotation, modelScale, modelVisible,
                   lastFrameTime, now, rafLoops, goodMatches>>

\* update3DObject(): the smoothed pose and the model's transform after an
\* update toward homography h.
Pose == [smoothedPosition |-> smoothedPosition, smoothedRotation |-> smoothedRotation,
         smoothedScale |-> smoothedScale, modelPosition |-> modelPosition,
         modelRotation |-> modelRotation, modelScale |-> modelScale,
         modelVisible |-> modelVisible]

Update3DObject(h) ==
    IF model = "null" THEN Pose
    ELSE LET target == Target(h)
         IN  IF ~target.accepted THEN Pose
             ELSE LET p == Lerp(smoothedPosition, target.position, CvSmoothingFactor)
                      r == smoothedRotation
                             + RoundDiv((target.rotation - smoothedRotation) * CvSmoothingFactor, 100)
                      k == smoothedScale
                             + RoundDiv((target.scale - smoothedScale) * CvSmoothingFactor, 100)
                  IN  [smoothedPosition |-> p, smoothedRotation |-> r, smoothedScale |-> k,
                       modelPosition |-> p, modelRotation |-> r, modelScale |-> k,
                       modelVisible |-> TRUE]

\* The native objects one detection pass allocates.
Temporaries ==
    {"frame", "gray", "frameKeypoints", "frameDescriptors", "matches", "srcMat", "dstMat"}

\* The temporaries a pass leaves undeleted: the deletes are the last
\* statements of the try block, and the catch block only logs, so a throw
\* skips the deletes of everything allocated before it.
Undeleted(path) ==
    CASE path = "threwEarly" -> {"frame", "gray", "frameKeypoints", "frameDescriptors"}
      [] path = "threwHomography" -> Temporaries
      [] OTHER -> {}

\* The outcomes of one detection pass that got past the throttle with video:
\* [path, tracking, good, mat, pose].  mat is the Mat findHomography returned
\* ("none" when it was not called or threw).
PassOutcomes ==
    IF handles["detector"] # "live" \/ handles["referenceDescriptors"] # "live"
    THEN { [path |-> "threwEarly", tracking |-> isTracking, good |-> goodMatches,
            mat |-> "none", pose |-> Pose] }
    ELSE
      { [path |-> "threwEarly", tracking |-> isTracking, good |-> goodMatches,
         mat |-> "none", pose |-> Pose],
        [path |-> "noDescriptors", tracking |-> isTracking, good |-> goodMatches,
         mat |-> "none", pose |-> Pose] }
      \cup { [path |-> "fewMatches", tracking |-> FALSE, good |-> n,
              mat |-> "none", pose |-> Pose] : n \in {k \in MatchCounts : ~EnoughMatches(k)} }
      \cup { [path |-> "threwHomography", tracking |-> TRUE, good |-> n,
              mat |-> "none", pose |-> Pose] : n \in {k \in MatchCounts : EnoughMatches(k)} }
      \cup { [path |-> "homography", tracking |-> TRUE, good |-> n,
              mat |-> m, pose |-> Update3DObject(Homographies[m])] :
              n \in {k \in MatchCounts : EnoughMatches(k)}, m \in MatNames }
      \cup (IF IsStrict
            THEN \* if (!this.homography.empty()) guards the update
                 { [path |-> "emptyHomography", tracking |-> TRUE, good |-> n,
                    mat |-> "empty", pose |-> Pose] :
                    n \in {k \in MatchCounts : EnoughMatches(k)} }
            ELSE \* doubleAt on an empty Mat reads outside it: a throw that
                 \* update3DObject catches, or whatever the memory holds
                 { [path |-> "emptyHomography", tracking |-> TRUE, good |-> n,
                    mat |-> "empty", pose |-> q] :
                    n \in {k \in MatchCounts : EnoughMatches(k)},
                    q \in {Pose} \cup {Update3DObject(Homographies[m]) : m \in MatNames} })

\* renderer.render calls of one render(): the call ends render(), whatever
\* processFrame did; with no renderer yet it throws instead.
CvRenderCalls(hasRenderer) == IF hasRenderer THEN 1 ELSE 0

\* Mutant: render() never hides the model.
HideWhenLostNever(tracking, visible) == visible

\* if (this.model && !this.isTracking) this.model.visible = false
HideWhenLost(tracking, visible) ==
    IF model # "null" /\ ~tracking THEN FALSE ELSE visible

\* Mutant: the early return stamps the time of the skipped frame.
ThrottledPassStamping ==
    /\ lastPath' = "throttled"
    /\ liveTemps' = {}
    /\ lastFrameTime' = now'
    /\ UNCHANGED <<lastPass, isTracking, goodMatches, homography, matDeleteCalls,
                   smoothedPosition, smoothedRotation, smoothedScale,
                   modelPosition, modelRotation, modelScale>>

\* processFrame(): if (currentTime - this.lastFrameTime < this.frameInterval) return
ThrottledPass ==
    /\ lastPath' = "throttled"
    /\ liveTemps' = {}
    /\ UNCHANGED <<lastFrameTime, lastPass, isTracking, goodMatches, homography, matDeleteCalls,
                   smoothedPosition, smoothedRotation, smoothedScale,
                   modelPosition, modelRotation, modelScale>>

\* render(): draw the video, processFrame(), hide the model when not
\* tracking, renderer.render().  A missing renderer makes the call throw.
RenderWith(outcomes, elapsed, maxFrames) ==
    /\ frames < maxFrames
    /\ frames' = frames + 1
    /\ \E dt \in elapsed : now' = now + dt
    /\ IF Throttled(now', lastFrameTime)
       THEN /\ ThrottledPass
            /\ modelVisible' = HideWhenLost(isTracking, modelVisible)
       ELSE /\ lastFrameTime' = now'
            /\ lastPass' = now'
            /\ IF ~videoReady
               THEN /\ lastPath' = "noVideo"
                    /\ liveTemps' = {}
                    /\ modelVisible' = HideWhenLost(isTracking, modelVisible)
                    /\ UNCHANGED <<isTracking, goodMatches, homography, matDeleteCalls,
                                   smoothedPosition, smoothedRotation, smoothedScale,
                                   modelPosition, modelRotation, modelScale>>
               ELSE \E o \in outcomes :
                    /\ lastPath' = o.path
                    /\ liveTemps' = Undeleted(o.path)
                    /\ isTracking' = o.tracking
                    /\ goodMatches' = o.good
                    /\ IF o.mat = "none"
                       THEN UNCHANGED <<homography, matDeleteCalls>>
                       ELSE /\ homography' = [id |-> Len(matDeleteCalls) + 1, m |-> o.mat]
                            /\ matDeleteCalls' = Append(matDeleteCalls, 0)
                    /\ smoothedPosition' = o.pose.smoothedPosition
                    /\ smoothedRotation' = o.pose.smoothedRotation
                    /\ smoothedScale' = o.pose.smoothedScale
                    /\ modelPosition' = o.pose.modelPosition
                    /\ modelRotation' = o.pose.modelRotation
                    /\ modelScale' = o.pose.modelScale
                    /\ modelVisible' = HideWhenLost(o.tracking, o.pose.modelVisible)
    /\ samples' = samples
    /\ renderCalls' = CvRenderCalls(renderer)

\* render() with whatever the detection pass may yield.
Render == RenderWith(PassOutcomes, Elapsed, MaxCvFrames)

\* A requestAnimationFrame callback of a loop that start() set going.
CvFrame ==
    /\ IsCv
    /\ rafLoops > 0
    /\ Render
    /\ UNCHANGED <<tracker, handVars, toolVars, factor, faceVars, stopped, model, placed,
                   mindarThree, engine, isRunning, animationLoop, startPc,
                   anchorVisible, anchorPosition, anchorQuaternion,
                   targetPosition, targetQuaternion, smoothedQuaternion,
                   positionHistory, quaternionHistory, lastPosition, velocity,
                   initPc, renderer, handles, deleteCalls,
                   srcObject, tracksStopped, videoReady, rafLoops>>

\* start(): animate() requests the next frame and renders at once.
CvStart ==
    /\ IsCv
    /\ rafLoops < MaxLoops
    /\ rafLoops' = rafLoops + 1
    /\ stopped' = FALSE
    /\ Render
    /\ UNCHANGED <<tracker, handVars, toolVars, factor, faceVars, model, placed,
                   mindarThree, engine, isRunning, animationLoop, startPc,
                   anchorVisible, anchorPosition, anchorQuaternion,
                   targetPosition, targetQuaternion, smoothedQuaternion,
                   positionHistory, quaternionHistory, lastPosition, velocity,
                   initPc, renderer, handles, deleteCalls,
                   srcObject, tracksStopped, videoReady>>

\* stop(): stops the stream's tracks; the animation loop is left alone.
StopTracks == IF srcObject # "null" THEN TRUE ELSE tracksStopped

CvStop ==
    /\ IsCv
    /\ tracksStopped' = StopTracks
    /\ stopped' = (stopped \/ rafLoops > 0)
    /\ UNCHANGED <<tracker, handVars, toolVars, factor, faceVars, mindVars, ghostVars,
                   initPc, renderer, handles, deleteCalls, homography, matDeleteCalls,
                   srcObject, videoReady, isTracking,
                   smoothedRotation, smoothedScale,
                   modelPosition, modelRotation, modelScale, modelVisible,
                   lastFrameTime, now, rafLoops, goodMatches>>

\* cleanup(): stop(), then delete() on referenceImage, referenceDescriptors,
\* referenceKeypoints and homography, each when the field is set.  The
\* fields keep their handles.  delete() on a deleted handle is an error of
\* the binding: it throws (cleanup ends there) or frees again.
CleanupOrder == <<"referenceImage", "referenceDescriptors", "referenceKeypoints">>

HomographyDeleted == homography.id # 0 /\ matDeleteCalls[homography.id] > 0

\* position in the order of the first delete() that hits a deleted handle
FirstDeleted ==
    LET hit == {i \in 1..3 : handles[CleanupOrder[i]] = "deleted"}
                 \cup (IF HomographyDeleted THEN {4} ELSE {})
    IN  IF hit = {} THEN 5 ELSE CHOOSE i \in hit : \A j \in hit : i <= j

\* whether cleanup() calls delete() on the field at position i
Releases(i, lastCall) ==
    /\ i <= lastCall
    /\ IF i = 4 THEN homography.id # 0 ELSE handles[CleanupOrder[i]] # "null"

\* the last position cleanup() gets to: the first delete() on a deleted
\* handle when that throws, else the end of the order
CleanupLastCall(throws) == IF throws THEN FirstDeleted ELSE 4

\* whether cleanup() calls delete() on handle n
CleanupCalls(n, throws) ==
    /\ n \in {CleanupOrder[i] : i \in 1..3}
    /\ Releases(CHOOSE i \in 1..3 : CleanupOrder[i] = n, CleanupLastCall(throws))

\* an exception leaves cleanup()
CleanupEscapes(throws) == throws /\ FirstDeleted <= 4

CvCleanup ==
    /\ IsCv
    /\ deleteCalls["referenceImage"] < MaxCleanups
    /\ tracksStopped' = StopTracks
    /\ stopped' = (stopped \/ rafLoops > 0)
    /\ \E throws \in BOOLEAN :
         LET lastCall == CleanupLastCall(throws)
             called(n) == CleanupCalls(n, throws)
         IN  /\ deleteCalls' = [n \in HandleNames |->
                                  IF called(n) THEN deleteCalls[n] + 1 ELSE deleteCalls[n]]
             /\ handles' = [n \in HandleNames |-> IF called(n) THEN "deleted" ELSE handles[n]]
             /\ matDeleteCalls' = IF Releases(4, lastCall)
                                  THEN [matDeleteCalls EXCEPT ![homography.id] = @ + 1]
                                  ELSE matDeleteCalls
    /\ UNCHANGED <<tracker, handVars, toolVars, factor, faceVars, mindVars, ghostVars,
                   initPc, renderer, homography,
                   srcObject, videoReady, isTracking,
                   smoothedRotation, smoothedScale,
                   modelPosition, modelRotation, modelScale, modelVisible,
                   lastFrameTime, now, rafLoops, goodMatches>>

\* ------------------------------------------------ a target that comes to rest
\* render() calls explored in one behaviour with a target that comes to rest.
MaxPoseFrames == 64
\* The calls among them during which the target still moves.
MaxMovingFrames == 2

\* The detection pass finds the target: enough matches, and findHomography
\* returns the matrix named m.
FoundOutcomes(names) ==
    { [path |-> "homography", tracking |-> TRUE, good |-> n,
       mat |-> m, pose |-> Update3DObject(AllHomographies[m])] :
       n \in {k \in MatchCounts : EnoughMatches(k)}, m \in names }

\* One render() of an initialized tracker, two display refreshes after the
\* previous one, with the target found: anywhere while it moves, where the
\* previous pass found it once it rests.
CvFoundFrame ==
    /\ IsCv
    /\ rafLoops > 0
    /\ initPc = "initialized"
    /\ videoReady
    /\ handles["detector"] = "live"
    /\ handles["referenceDescriptors"] = "live"
    /\ RenderWith(FoundOutcomes(IF frames < MaxMovingFrames \/ homography.id = 0
                                THEN DOMAIN AllHomographies
                                ELSE {homography.m} \cap DOMAIN AllHomographies),
                  {40}, MaxPoseFrames)
    /\ UNCHANGED <<tracker, handVars, toolVars, factor, faceVars, stopped, model, placed,
                   mindarThree, engine, isRunning, animationLoop, startPc,
                   anchorVisible, anchorPosition, anchorQuaternion,
                   targetPosition, targetQuaternion, smoothedQuaternion,
                   positionHistory, quaternionHistory, lastPosition, velocity,
                   initPc, renderer, handles, deleteCalls,
                   srcObject, tracksStopped, videoReady, rafLoops>>

NextPose ==
    \/ CvInitCall
    \/ CvReferenceLoaded
    \/ CvModelLoaded
    \/ CvStartVideo
    \/ CvStart
    \/ CvFoundFrame

NextCv ==
    \/ CvInitCall
    \/ CvReferenceLoaded
    \/ CvModelLoaded
    \/ CvStartVideo
    \/ CvFrame
    \/ CvStart
    \/ CvStop
    \/ CvCleanup

InitCv == tracker \in {"opencv", "opencvStrict"} /\ Fields /\ factor = DefaultFactor

SpecCv == InitCv /\ [][NextCv]_vars

\* The OpenCVTracker in front of a target that is found on every pass.
SpecPose == InitCv /\ [][NextPose]_vars

NextMind ==
    \/ MindStartCall
    \/ MindLoadModel
    \/ MindEngineStart
    \/ MindStop
    \/ MindDetector
    \/ MindFrame
    \/ MindFrameBasic

InitMindAny == InitMind("mindar") \/ InitMind("mindarBasic")

SpecMind == InitMindAny /\ [][NextMind]_vars

\* ------------------------------------------------ a static target
\* Frames explored in one behaviour with a static target.
MaxStaticFrames == 80

\* Poses of a target that does not move: position, orientation.
StaticPoses == { <<FarPoint, 3000>>, <<NearOrigin, 0>>,
                 <<(<<-7, 3, 0>>), 0>>, <<(<<-300, 40, 9>>), -4500>> }

\* Values of this.smoothingFactor explored, in percent.
StaticFactors == {0, 10, 15, 50, 100}

\* One display refresh with the target in view and at rest: the engine
\* writes the pose it wrote before the previous callback (targetPosition and
\* targetQuaternion hold that raw sample), then the callback runs.
StaticFrame ==
    /\ tracker = "mindar"
    /\ engine
    /\ animationLoop = "loop"
    /\ frames < MaxStaticFrames
    /\ \E pose \in StaticPoses :
         /\ samples = 0 \/ (pose[1] = targetPosition /\ pose[2] = targetQuaternion)
         /\ MindCallback(TRUE, pose[1], pose[2])
    /\ anchorVisible' = TRUE
    /\ UNCHANGED <<tracker, handVars, toolVars, factor, faceVars, cvVars, stopped, mindarThree, engine, model, placed, isRunning,
                   animationLoop, startPc, lastPass, liveTemps>>

NextStatic ==
    \/ MindStartCall
    \/ MindLoadModel
    \/ MindEngineStart
    \/ StaticFrame

InitStatic == tracker = "mindar" /\ Fields /\ factor \in StaticFactors

\* The filtering MindARTracker in front of a target at rest.
SpecStatic == InitStatic /\ [][NextStatic]_vars

\* The render loop's callback runs at every display refresh while the loop
\* is installed, and the pending awaits of start() settle.
SpecStaticFair ==
    /\ SpecStatic
    /\ WF_vars(StaticFrame)
    /\ WF_vars(MindLoadModel)
    /\ WF_vars(MindEngineStart)

\* ========================================================= FaceOccluder
\* Detector callbacks explored in one behaviour of a face component.
MaxFaceFrames == 3

\* 2 * tan(fov / 2) * 5 with fov = 75 degrees, in 1/10000
heightAtZero == 76733
\* heightAtZero * camera.aspect, for a 4:3 viewport
widthAtZero == (heightAtZero * 4) \div 3
\* xOffset = -0.1, in 1/10000
xOffset == -1000

\* landmarks.length values the detector callback may deliver: none, sets
\* cut short, the 468 landmarks of the face mesh
LandmarkCounts == {0, 1, 8, 20, 153, 468}
\* Faces: landmark i of face k lies at Landmark(k, i)
Shapes == 0..3

\* landmarks[i] of face k: x and y in 1/100 of the image, z in 1/100 of its width
Landmark(k, i) == [x |-> 35 + ((i * 7 + 13 * k) % 31),
                   y |-> 35 + ((i * 3 + 29 * k) % 31),
                   z |-> ((i + k) % 11) - 5]

IsOccluder == tracker \in {"occluder", "occluderBody"}

\* [...new Set(importantIndices)]: the first variant (face oval, nose, eyes,
\* mouth), the second variant (face oval only)
uniqueIndices ==
    IF tracker = "occluder"
    THEN <<10, 338, 297, 332, 284, 251, 389, 356, 454, 323, 361, 288, 397, 365, 379,
           378, 400, 377, 152, 148, 176, 149, 150, 136, 172, 58, 132, 93, 234, 127,
           162, 21, 54, 103, 67, 109, 6, 197, 195, 5, 4, 33, 133, 160, 159, 158, 157,
           173, 246, 161, 362, 263, 387, 386, 385, 384, 398, 466, 388, 61, 185, 40,
           39, 37, 0, 267, 269, 270, 409, 291>>
    ELSE <<10, 338, 297, 332, 284, 251, 389, 356, 454, 323, 361, 288, 397, 365, 379,
           378, 400, 377, 152, 148, 176, 149, 150, 136, 172, 58, 132, 93, 234, 127,
           162, 21, 54, 103, 67, 109>>

foreheadTopIndices == {10, 338, 297, 332, 284, 251, 389, 356, 454}

chinIndices ==
    IF tracker = "occluder"
    THEN {152, 148, 176, 149, 150, 136, 172, 58, 132, 93, 234, 127, 162, 21, 54, 103,
          67, 109, 365, 379, 378, 400, 377, 454, 323, 361, 288, 397}
    ELSE {152, 148, 176, 149, 150, 136, 172, 58, 132, 93, 234,
          377, 400, 378, 379, 365, 397, 288, 361, 323, 454}

rightSideIndices == {234, 127, 162, 21, 54, 103, 67, 109}
leftSideIndices == {454, 323, 361, 288, 397, 365, 379, 378, 400, 377}

\* if (idx < landmarks.length)
InRange(idx, n) == idx < n

\* The vertex of landmark idx, first variant: forehead raised by 1.2, chin
\* lowered by 6.0 and pushed outward by 1.5.
VertexFan(idx, lm) ==
    LET x0 == -RoundDiv((lm.x - 50) * widthAtZero, 100)
        y0 == -RoundDiv((lm.y - 50) * heightAtZero, 100)
        y1 == IF idx \in foreheadTopIndices THEN y0 + 12000 ELSE y0
        y2 == IF idx \in chinIndices THEN y1 - 60000 ELSE y1
        x1 == IF idx \notin chinIndices THEN x0
              ELSE IF idx \in rightSideIndices THEN x0 + 15000
              ELSE IF idx \in leftSideIndices THEN x0 - 15000
              ELSE x0
    IN  <<x1, y2, 0>>

\* The vertex of landmark idx, second variant: scaled by 1.1, shifted by
\* xOffset, chin lowered by 0.5.
VertexStrip(idx, lm) ==
    LET x0 == -RoundDiv((lm.x - 50) * widthAtZero * 11, 1000) + xOffset
        y0 == -RoundDiv((lm.y - 50) * heightAtZero * 11, 1000)
    IN  <<x0, IF idx \in chinIndices THEN y0 - 5000 ELSE y0, 0>>

\* uniqueIndices.forEach: the vertices of the landmarks that are in range
Vertices(n, k) ==
    LET kept == SelectSeq(uniqueIndices, LAMBDA idx : InRange(idx, n))
    IN  [j \in 1..Len(kept) |->
           IF tracker = "occluder" THEN VertexFan(kept[j], Landmark(k, kept[j]))
           ELSE VertexStrip(kept[j], Landmark(k, kept[j]))]

RECURSIVE SumVertices(_, _)
SumVertices(vs, axis) == IF vs = <<>> THEN 0 ELSE Head(vs)[axis] + SumVertices(Tail(vs), axis)

\* Mutant: the last triangle does not wrap around to the first vertex.
GeometryFanOpen(vs) ==
    LET count == Len(vs)
        centre == <<RoundDiv(SumVertices(vs, 1), count), RoundDiv(SumVertices(vs, 2), count),
                    RoundDiv(SumVertices(vs, 3), count)>>
    IN  [position |-> Append(vs, centre),
         index |-> [i \in 1..count |-> <<count, i - 1, i>>]]

\* First variant: the centre vertex is appended and every triangle joins it
\* to two consecutive vertices.  (A non-empty landmark set always holds
\* landmark 0, so count > 0.)
GeometryFan(vs) ==
    LET count == Len(vs)
        centre == <<RoundDiv(SumVertices(vs, 1), count), RoundDiv(SumVertices(vs, 2), count),
                    RoundDiv(SumVertices(vs, 3), count)>>
    IN  [position |-> Append(vs, centre),
         index |-> [i \in 1..count |-> <<count, i - 1, i % count>>]]

\* Mutant: the loop runs up to i = count - 1.
GeometryStripClosed(vs) ==
    [position |-> vs,
     index |-> [i \in 1..(IF Len(vs) >= 2 THEN Len(vs) - 1 ELSE 0) |-> <<0, i, i + 1>>]]

\* Second variant: triangles (0, i, i + 1) for i = 1 .. count - 2.
GeometryStrip(vs) ==
    [position |-> vs,
     index |-> [i \in 1..(IF Len(vs) >= 3 THEN Len(vs) - 2 ELSE 0) |-> <<0, i, i + 1>>]]

\* Second variant: the body occluder follows landmark 152 when there is one.
BodyPosition(n, k) ==
    IF tracker = "occluderBody" /\ n > 152
    THEN LET chin == Landmark(k, 152)
         IN  <<-RoundDiv((chin.x - 50) * widthAtZero * 11, 1000) + 1000,
               -RoundDiv((chin.y - 50) * heightAtZero * 11, 1000) - 55000,
               0>>
    ELSE bodyPosition

\* FaceOccluder.updateFace(landmarks, camera, xOffset)
OccluderUpdateFace ==
    /\ IsOccluder
    /\ frames < MaxFaceFrames
    /\ frames' = frames + 1
    /\ \E n \in LandmarkCounts, k \in Shapes :
         /\ landmarkCount' = n
         /\ IF n = 0
            THEN /\ lastPath' = "empty"
                 /\ UNCHANGED <<positionAttr, indexBuf, bodyPosition>>
            ELSE LET geometry == IF tracker = "occluder" THEN GeometryFan(Vertices(n, k))
                                 ELSE GeometryStrip(Vertices(n, k))
                 IN  /\ lastPath' = "rebuilt"
                     /\ positionAttr' = geometry.position
                     /\ indexBuf' = geometry.index
                     /\ bodyPosition' = BodyPosition(n, k)
    /\ escaped' = FALSE
    /\ UNCHANGED <<tracker, handVars, toolVars, factor, mindVars, cvVars, stopped, facePosition, faceRotation,
                   samples, renderCalls, lastPass, liveTemps>>

NextOccluder == OccluderUpdateFace

InitOccluder == tracker \in {"occluder", "occluderBody"} /\ Fields /\ factor = DefaultFactor

SpecOccluder == InitOccluder /\ [][NextOccluder]_vars

\* ========================================================= SceneManager
\* The world point of a landmark: x mirrored, z scaled by widthAtZero.
WorldPoint(lm) == <<-RoundDiv((lm.x - 50) * widthAtZero, 100),
                    -RoundDiv((lm.y - 50) * heightAtZero, 100),
                    -RoundDiv(lm.z * widthAtZero, 100)>>

\* SceneManager.updateFace(landmarks): [path, position, rotation, threw].
\* Reading .x of a landmark the set does not hold throws a TypeError: of
\* landmarks[1] before the position is set, of landmarks[33] and
\* landmarks[263] after it.
SceneUpdateFace(n, k) ==
    LET nose == Landmark(k, 1)
        p1 == WorldPoint(Landmark(k, 33))
        p2 == WorldPoint(Landmark(k, 263))
        position == <<-RoundDiv((nose.x - 50) * widthAtZero, 100),
                      -RoundDiv((nose.y - 50) * heightAtZero, 100), 0>>
    IN  IF n = 0
        THEN [path |-> "empty", position |-> facePosition, rotation |-> faceRotation,
              threw |-> FALSE]
        ELSE IF n <= 1
        THEN [path |-> "threwNose", position |-> facePosition, rotation |-> faceRotation,
              threw |-> TRUE]
        ELSE IF n <= 33
        THEN [path |-> "threwLeftEye", position |-> position, rotation |-> faceRotation,
              threw |-> TRUE]
        ELSE IF n <= 263
        THEN [path |-> "threwRightEye", position |-> position, rotation |-> faceRotation,
              threw |-> TRUE]
        ELSE [path |-> "posed", position |-> position,
              rotation |-> SetLength(VSub(p2, p1), 10000), threw |-> FALSE]

\* The callback given to faceTracker.init: updateFace with the first face
\* when the results hold one; what updateFace throws leaves the callback.
FaceResults ==
    /\ tracker = "scene"
    /\ frames < MaxFaceFrames
    /\ frames' = frames + 1
    /\ \/ /\ lastPath' = "noFace"
          /\ landmarkCount' = -1
          /\ escaped' = FALSE
          /\ UNCHANGED <<facePosition, faceRotation>>
       \/ \E n \in LandmarkCounts, k \in Shapes :
            LET o == SceneUpdateFace(n, k)
            IN  /\ lastPath' = o.path
                /\ landmarkCount' = n
                /\ escaped' = o.threw
                /\ facePosition' = o.position
                /\ faceRotation' = o.rotation
    /\ UNCHANGED <<tracker, handVars, toolVars, factor, mindVars, cvVars, stopped,
                   positionAttr, indexBuf, bodyPosition, samples, renderCalls, lastPass, liveTemps>>

NextScene == FaceResults

InitScene == tracker = "scene" /\ Fields /\ factor = DefaultFactor

SpecScene == InitScene /\ [][NextScene]_vars

\* ================================================== image-tracking.js
\* The page before DOMContentLoaded.
InitScript == tracker = "script" /\ Fields /\ factor = DefaultFactor

\* The DOMContentLoaded handler: creates MindARThree and the anchor and calls
\* loader.load(), which is pending when the handler returns.
ScriptDomLoaded ==
    /\ tracker = "script"
    /\ mindarThree = "null"
    /\ mindarThree' = "created"
    /\ startPc' = "awaitLoad"
    /\ UNCHANGED <<tracker, handVars, toolVars, factor, faceVars, cvVars, stopped, engine, model, placed, isRunning,
                   animationLoop, anchorVisible, anchorPosition, anchorQuaternion,
                   filterVars, ghostVars>>

\* The loader's callbacks: the model, or the fallback cube; both go on to
\* mindarThree.start().
ScriptLoad ==
    /\ tracker = "script"
    /\ startPc = "awaitLoad"
    /\ startPc' = "awaitEngine"
    /\ \E ok \in BOOLEAN :
         IF ok
         THEN /\ model' = "gltf"
              /\ placed' = "gltf"
              /\ smoothedPosition' = anchorPosition
              /\ smoothedQuaternion' = anchorQuaternion
         ELSE /\ placed' = "cube"
              /\ UNCHANGED <<model, smoothedPosition, smoothedQuaternion>>
    /\ UNCHANGED <<tracker, handVars, toolVars, factor, faceVars, cvVars, stopped, mindarThree, engine, isRunning,
                   animationLoop, anchorVisible, anchorPosition, anchorQuaternion,
                   targetPosition, targetQuaternion, positionHistory,
                   quaternionHistory, lastPosition, velocity, ghostVars>>

\* mindarThree.start() settles: then() installs the animation loop, catch()
\* logs the error.
ScriptEngineStart ==
    /\ tracker = "script"
    /\ startPc = "awaitEngine"
    /\ startPc' = "idle"
    /\ \E ok \in BOOLEAN :
         IF ok
         THEN /\ engine' = TRUE
              /\ animationLoop' = "loop"
         ELSE UNCHANGED <<engine, animationLoop>>
    /\ UNCHANGED <<tracker, handVars, toolVars, factor, faceVars, cvVars, stopped, mindarThree, model, placed,
                   isRunning, anchorVisible, anchorPosition, anchorQuaternion,
                   filterVars, ghostVars>>

\* The engine writes the anchor while it runs.
ScriptDetector ==
    /\ tracker = "script"
    /\ engine
    /\ \/ /\ anchorVisible' = FALSE
          /\ UNCHANGED <<anchorPosition, anchorQuaternion>>
       \/ \E pose \in RawPoses :
            /\ anchorVisible' = TRUE
            /\ anchorPosition' = pose[1]
            /\ anchorQuaternion' = pose[2]
    /\ UNCHANGED <<tracker, handVars, toolVars, factor, faceVars, cvVars, stopped, mindarThree, engine, model, placed,
                   isRunning, animationLoop, startPc, filterVars, ghostVars>>

\* The animation loop: with the model, lerp and slerp toward the anchor when
\* it is visible; with the fallback cube, render only.
ScriptFrame ==
    /\ tracker = "script"
    /\ animationLoop = "loop"
    /\ frames < MaxFrames
    /\ frames' = frames + 1
    /\ IF placed = "gltf" /\ anchorVisible
       THEN /\ lastPath' = "updated"
            /\ samples' = samples + 1
            /\ targetPosition' = anchorPosition
            /\ targetQuaternion' = anchorQuaternion
            /\ smoothedPosition' = Lerp(smoothedPosition, anchorPosition, factor)
            /\ smoothedQuaternion' = Slerp(smoothedQuaternion, anchorQuaternion, factor, 100)
            /\ anchorPosition' = smoothedPosition'
            /\ anchorQuaternion' = smoothedQuaternion'
            /\ UNCHANGED <<positionHistory, quaternionHistory, lastPosition, velocity>>
       ELSE /\ lastPath' = "renderOnly"
            /\ UNCHANGED <<samples, anchorPosition, anchorQuaternion, filterVars>>
    /\ renderCalls' = 1
    /\ UNCHANGED <<tracker, handVars, toolVars, factor, faceVars, cvVars, stopped, mindarThree, engine, model, placed,
                   isRunning, animationLoop, startPc, anchorVisible, lastPass, liveTemps>>

NextScript ==
    \/ ScriptDomLoaded
    \/ ScriptLoad
    \/ ScriptEngineStart
    \/ ScriptDetector
    \/ ScriptFrame

\* Every component that loads the visual model.
InitLoad == InitMindAny \/ InitCv \/ InitScript

NextLoad == NextMind \/ NextCv \/ NextScript

SpecLoad == InitLoad /\ [][NextLoad]_vars

\* Either tracker.
Init == InitMindAny \/ InitCv

Next == NextMind \/ NextCv

Spec == Init /\ [][Next]_vars

\* ================================================ SceneManager.updateHands
\* Camera frames explored in one behaviour of the page with the hand toggle.
MaxHandFrames == 3

\* for (let i = 0; i < 42; i++): 2 hands * 21 landmarks
PoolSize == 42

\* this.handCalibration of the constructor: offsetY -0.6 in 1/10000, scale 1.0
\* and depthScale 0.5 in percent
handOffsetY == -6000
handScale == 100
handDepthScale == 50

\* "hands": SceneManager.js; "handsCalibrated": the SceneManager with
\* handCalibration
IsHands == tracker \in {"hands", "handsCalibrated"}

\* The results the hand detector may deliver: without multiHandLandmarks, or
\* with the landmark count of each hand (21 by the detector; 43 is a hand
\* longer than the pool, three hands are more than maxNumHands).
NoHands == [has |-> FALSE, hands |-> <<>>]
HandResultSet ==
    {NoHands} \cup { [has |-> TRUE, hands |-> h] :
                     h \in {<<>>, <<21>>, <<21, 21>>, <<43>>, <<21, 21, 21>>} }

\* mesh.position.set(x, y, z) for a landmark
HandPoint(lm) ==
    IF tracker = "handsCalibrated"
    THEN <<-RoundDiv((lm.x - 50) * widthAtZero * handScale, 10000),
           -RoundDiv((lm.y - 50) * heightAtZero * handScale, 10000) + handOffsetY,
           RoundDiv(lm.z * widthAtZero * handDepthScale, 10000)>>
    ELSE WorldPoint(lm)

\* The pool the first call makes: every mesh hidden, at the origin.
NewPool == [i \in 1..PoolSize |-> [visible |-> FALSE, position |-> Zero3]]

\* Mutant: the hide step is missing.
HideAllNothing(pool) == pool

\* this.handObjects.forEach(obj => obj.visible = false)
HideAll(pool) == [i \in 1..Len(pool) |-> [pool[i] EXCEPT !.visible = FALSE]]

\* for (const landmark of landmarks): landmarks j..n of hand h, from
\* st = [pool, objIndex]; the break leaves the loop of this hand only.
RECURSIVE ShowHand(_, _, _, _)
ShowHand(st, h, n, j) ==
    IF j > n \/ st.objIndex >= Len(st.pool)
    THEN st
    ELSE ShowHand([pool |-> [st.pool EXCEPT ![st.objIndex + 1] =
                                [visible |-> TRUE,
                                 position |-> HandPoint(Landmark(h, j - 1))]],
                   objIndex |-> st.objIndex + 1], h, n, j + 1)

\* for (const landmarks of results.multiHandLandmarks)
RECURSIVE ShowHands(_, _, _)
ShowHands(st, hands, h) ==
    IF h > Len(hands) THEN st
    ELSE ShowHands(ShowHand(st, h, hands[h], 1), hands, h + 1)

\* updateHands(results): the pool after the call.
UpdateHands(pool, results) ==
    LET made == IF pool = <<>> THEN NewPool ELSE pool
        hidden == HideAll(made)
    IN  IF results.has
        THEN ShowHands([pool |-> hidden, objIndex |-> 0], results.hands, 1).pool
        ELSE hidden

\* Camera.onFrame starts: await faceTracker.send(videoElement).
HandsCameraFrame ==
    /\ IsHands
    /\ handPc = "idle"
    /\ frames < MaxHandFrames
    /\ frames' = frames + 1
    /\ handPc' = "awaitFace"
    /\ lastPath' = "faceSend"
    /\ renderCalls' = 0
    /\ UNCHANGED <<tracker, toolVars, factor, mindVars, cvVars, faceVars, stopped,
                   samples, lastPass, liveTemps, handObjects, isHandTrackingEnabled>>

\* The face results arrive (updateFace with the first face when there is
\* one), faceTracker.send resolves and onFrame goes on:
\* if (isHandTrackingEnabled) await handTracker.send(videoElement).
HandsFaceResults ==
    /\ IsHands
    /\ handPc = "awaitFace"
    /\ \/ /\ landmarkCount' = -1
          /\ UNCHANGED <<facePosition, faceRotation>>
       \/ \E k \in {0, 1} :
            LET o == SceneUpdateFace(468, k)
            IN  /\ landmarkCount' = 468
                /\ facePosition' = o.position
                /\ faceRotation' = o.rotation
    /\ handPc' = IF isHandTrackingEnabled THEN "awaitHand" ELSE "idle"
    /\ lastPath' = IF isHandTrackingEnabled THEN "handSend" ELSE "handSkipped"
    /\ renderCalls' = 0
    /\ UNCHANGED <<tracker, toolVars, factor, mindVars, cvVars, stopped,
                   positionAttr, indexBuf, bodyPosition, escaped,
                   frames, samples, lastPass, liveTemps, handObjects, isHandTrackingEnabled>>

\* The hand results arrive: the callback given to handTracker.init calls
\* updateHands(results); handTracker.send resolves and onFrame ends.
HandsResults ==
    /\ IsHands
    /\ handPc = "awaitHand"
    /\ \E r \in HandResultSet : handObjects' = UpdateHands(handObjects, r)
    /\ handPc' = "idle"
    /\ lastPath' = "hands"
    /\ renderCalls' = 0
    /\ UNCHANGED <<tracker, toolVars, factor, mindVars, cvVars, faceVars, stopped,
                   frames, samples, lastPass, liveTemps, isHandTrackingEnabled>>

\* The click handler of the toggle button.
HandsToggle ==
    /\ IsHands
    /\ isHandTrackingEnabled' = ~isHandTrackingEnabled
    /\ lastPath' = "toggle"
    /\ renderCalls' = 0
    /\ UNCHANGED <<tracker, toolVars, factor, mindVars, cvVars, faceVars, stopped,
                   frames, samples, lastPass, liveTemps, handObjects, handPc>>

\* sceneManager.animate(): a callback of the render loop draws the scene.
HandsAnimate ==
    /\ IsHands
    /\ lastPath' = "animate"
    /\ renderCalls' = 1
    /\ UNCHANGED <<tracker, toolVars, factor, mindVars, cvVars, faceVars, stopped,
                   frames, samples, lastPass, liveTemps, handVars>>

NextHands ==
    \/ HandsCameraFrame
    \/ HandsFaceResults
    \/ HandsResults
    \/ HandsToggle
    \/ HandsAnimate

InitHands == IsHands /\ Fields /\ factor = DefaultFactor

SpecHands == InitHands /\ [][NextHands]_vars

\* ========================================================= CompilerTool
\* Method calls explored in one behaviour of a CompilerTool.
MaxToolCalls == 4

\* The file lists addImages may be given, as the types of the files.
FileLists ==
    {<<>>, <<"image/png">>, <<"text/plain">>, <<"image/jpeg", "text/plain">>}

\* file.type === 'image/png' || file.type === 'image/jpeg'
IsImage(type) == type \in {"image/png", "image/jpeg"}

\* Removes compiles[i].
RemoveAt(s, i) == [j \in 1..(Len(s) - 1) |-> IF j < i THEN s[j] ELSE s[j + 1]]

\* addImages(files): keeps the png and jpeg files.
ToolAddImages ==
    /\ tracker = "compiler"
    /\ frames < MaxToolCalls
    /\ frames' = frames + 1
    /\ \E files \in FileLists : images' = SelectSeq(files, IsImage)
    /\ lastPath' = "addImages"
    /\ UNCHANGED <<tracker, handVars, factor, mindVars, cvVars, faceVars, stopped,
                   samples, renderCalls, lastPass, liveTemps,
                   compiledData, compiles, compiledSinceReset>>

\* compile(): with no image the promise rejects at once; otherwise the
\* images of this moment start loading and the call is pending.
ToolCompile ==
    /\ tracker = "compiler"
    /\ frames < MaxToolCalls
    /\ frames' = frames + 1
    /\ IF Len(images) = 0
       THEN /\ lastPath' = "compileRejected"
            /\ UNCHANGED compiles
       ELSE /\ lastPath' = "compileStarted"
            /\ compiles' = Append(compiles, [stage |-> "loading", n |-> Len(images)])
    /\ UNCHANGED <<tracker, handVars, factor, mindVars, cvVars, faceVars, stopped,
                   samples, renderCalls, lastPass, liveTemps,
                   images, compiledData, compiledSinceReset>>

\* await Promise.all(...) of a pending compile(): every image loaded and
\* compileImageTargets is called, or one failed and the promise rejects.
ToolImagesLoaded ==
    /\ tracker = "compiler"
    /\ \E i \in DOMAIN compiles :
         /\ compiles[i].stage = "loading"
         /\ \/ /\ compiles' = [compiles EXCEPT ![i].stage = "compiling"]
               /\ lastPath' = "compilerInvoked"
            \/ /\ compiles' = RemoveAt(compiles, i)
               /\ lastPath' = "loadFailed"
    /\ UNCHANGED <<tracker, handVars, factor, mindVars, cvVars, faceVars, stopped,
                   frames, samples, renderCalls, lastPass, liveTemps,
                   images, compiledData, compiledSinceReset>>

\* await this.compiler.compileImageTargets(...) of a pending compile(): it
\* resolves and compiledData = exportData(), or it throws and the promise
\* rejects.
ToolCompiled ==
    /\ tracker = "compiler"
    /\ \E i \in DOMAIN compiles :
         /\ compiles[i].stage = "compiling"
         /\ compiles' = RemoveAt(compiles, i)
         /\ \/ /\ compiledData' = compiles[i].n
               /\ compiledSinceReset' = TRUE
               /\ lastPath' = "compiled"
            \/ /\ lastPath' = "compilerThrew"
               /\ UNCHANGED <<compiledData, compiledSinceReset>>
    /\ UNCHANGED <<tracker, handVars, factor, mindVars, cvVars, faceVars, stopped,
                   frames, samples, renderCalls, lastPass, liveTemps, images>>

\* Mutant: downloadMindFile() has no guard.
DownloadThrowsNever(data) == FALSE

\* if (!this.compiledData) throw
DownloadThrows(data) == data = -1

\* downloadMindFile(): throws, or clicks a link to a blob of compiledData.
ToolDownload ==
    /\ tracker = "compiler"
    /\ frames < MaxToolCalls
    /\ frames' = frames + 1
    /\ lastPath' = IF DownloadThrows(compiledData) THEN "downloadThrew" ELSE "downloaded"
    /\ UNCHANGED <<tracker, handVars, factor, mindVars, cvVars, faceVars, stopped,
                   samples, renderCalls, lastPass, liveTemps, toolVars>>

\* reset()
ToolReset ==
    /\ tracker = "compiler"
    /\ frames < MaxToolCalls
    /\ frames' = frames + 1
    /\ images' = <<>>
    /\ compiledData' = -1
    /\ compiledSinceReset' = FALSE
    /\ lastPath' = "reset"
    /\ UNCHANGED <<tracker, handVars, factor, mindVars, cvVars, faceVars, stopped,
                   samples, renderCalls, lastPass, liveTemps, compiles>>

NextTool ==
    \/ ToolAddImages
    \/ ToolCompile
    \/ ToolImagesLoaded
    \/ ToolCompiled
    \/ ToolDownload
    \/ ToolReset

InitTool == tracker = "compiler" /\ Fields /\ factor = DefaultFactor

SpecTool == InitTool /\ [][NextTool]_vars

\* ============================================================== claims
\* A step that runs one animation-loop callback of the filtering MindARTracker
\* while it is running.
MindFilterCallback == tracker = "mindar" /\ frames' = frames + 1 /\ isRunning

\* C1: in any single render-loop frame of the MindARTracker filter the
\* stabilized position moves by at most maxVelocity, whatever the raw
\* positions are.
C1_StepWithinMaxVelocity ==
    [][MindFilterCallback =>
         DistanceToSquared(smoothedPosition, smoothedPosition') <= maxVelocity * maxVelocity]_vars

\* C2: on a visible frame where the previous stabilized position is less than
\* movementThreshold away from the new rolling-average position, the update
\* is discarded: stabilized position and orientation keep their values, the
\* anchor receives those values, and lastPosition and velocity are untouched.
C2_DeadZoneDiscards ==
    [][(/\ MindFilterCallback
        /\ anchorVisible
        /\ DistanceToSquared(smoothedPosition, AvgPosition(positionHistory'))
             < movementThreshold * movementThreshold)
       => /\ smoothedPosition' = smoothedPosition
          /\ smoothedQuaternion' = smoothedQuaternion
          /\ anchorPosition' = smoothedPosition
          /\ anchorQuaternion' = smoothedQuaternion
          /\ lastPosition' = lastPosition
          /\ velocity' = velocity]_vars

\* A dead-zone frame whose raw sample differs from the stabilized position,
\* with earlier samples in the history.
C2_Witness ==
    /\ tracker = "mindar"
    /\ lastPath = "deadZone"
    /\ targetPosition # smoothedPosition
    /\ Len(positionHistory) >= 2

\* C3: after every render-loop callback positionHistory and quaternionHistory
\* have the same length, and it is at most historySize.
C3_HistoryBounded ==
    /\ Len(positionHistory) = Len(quaternionHistory)
    /\ Len(positionHistory) <= historySize

\* More samples were appended than the history holds: the oldest was evicted.
C3_Witness ==
    /\ tracker = "mindar"
    /\ samples > historySize
    /\ Len(positionHistory) = historySize

\* C4: on a render-loop frame in which the anchor is not visible, the
\* stabilized position and orientation, the sample history, lastPosition and
\* velocity are left unchanged.
C4_FreezeOnLoss ==
    [][(IsMind /\ frames' = frames + 1 /\ ~anchorVisible)
       => UNCHANGED <<smoothedPosition, smoothedQuaternion, positionHistory,
                      quaternionHistory, lastPosition, velocity>>]_vars

\* The target was lost after it had been tracked: the latest frame had no
\* observation and the filter holds an earlier pose.
C4_Witness ==
    /\ IsMind
    /\ lastPath = "invisible"
    /\ samples > 0
    /\ smoothedPosition # Zero3

\* A step that runs one render() of the OpenCVTracker.
CvCallback == IsCv /\ frames' = frames + 1

\* The detection pass of this step ran the matcher and counted good matches.
MatcherRan(path) ==
    path \in {"fewMatches", "threwHomography", "homography", "emptyHomography"}

\* C5: in a detection pass where the number of good matches is below the
\* minimum (4 basic, 8 strict), isTracking is false after the pass and the
\* smoothed position, rotation and scale are unchanged.
C5_FewMatchesHoldPose ==
    [][(/\ CvCallback
        /\ MatcherRan(lastPath')
        /\ goodMatches' < (IF tracker = "opencvStrict" THEN 8 ELSE 4))
       => /\ isTracking' = FALSE
          /\ UNCHANGED <<smoothedPosition, smoothedRotation, smoothedScale>>]_vars

\* Too few matches on a pass that follows an accepted pose update.
C5_Witness ==
    /\ IsCv
    /\ lastPath = "fewMatches"
    /\ ~isTracking
    /\ smoothedScale # 10000

\* C6: strict variant: a homography whose scale is below 0.1 or above 5.0
\* leaves the smoothed position, rotation and scale and the model's
\* position, rotation and scale as they were.
C6_ScaleRejected ==
    [][(/\ CvCallback
        /\ tracker = "opencvStrict"
        /\ homography'.id # homography.id
        /\ homography'.m \in MatNames
        /\ LET twice == ScaleSum(Homographies[homography'.m])
           IN  twice < 20 \/ twice > 1000)
       => UNCHANGED <<smoothedPosition, smoothedRotation, smoothedScale,
                      modelPosition, modelRotation, modelScale>>]_vars

\* A homography of scale 10 arrived after an accepted pose update.
C6_Witness ==
    /\ tracker = "opencvStrict"
    /\ lastPath = "homography"
    /\ homography.m = "huge"
    /\ smoothedScale # 10000

\* C7: after stop() has returned on a started tracker, no later frame
\* callback runs or mutates tracker state unless start() is called again.
C7_StopDetaches ==
    [][(stopped /\ stopped' /\ (IsCv => initPc = "initialized"))
       => UNCHANGED <<frames, smoothedPosition, smoothedQuaternion, positionHistory,
                      quaternionHistory, isTracking, lastFrameTime>>]_vars

\* C8: for any number of cleanup() calls, delete() is invoked at most once
\* on each native handle the tracker holds.
C8_DeleteAtMostOnce ==
    /\ \A n \in HandleNames : deleteCalls[n] <= 1
    /\ \A i \in DOMAIN matDeleteCalls : matDeleteCalls[i] <= 1

\* C9: when camera-stream acquisition fails, init() does not resolve: an
\* initialized tracker has a video stream.
C9_InitNeedsStream == initPc = "initialized" => srcObject = "stream"

\* C10: every callback of the render loop of a running tracker (MindARTracker
\* with isRunning set, OpenCVTracker with its renderer created) issues
\* exactly one renderer.render call.
C10_OneRenderPerCallback ==
    [][(/\ frames' = frames + 1
        /\ IF IsMind THEN isRunning ELSE renderer)
       => renderCalls' = 1]_vars

\* A detection pass threw inside processFrame and the frame was rendered.
C10_Witness ==
    /\ IsCv
    /\ lastPath \in {"threwEarly", "threwHomography"}
    /\ renderCalls = 1

\* C11: any two detection passes of the OpenCVTracker that get past the
\* throttle check are at least frameInterval (1000/30 ms) of clock time apart,
\* however often render() is called and however many loops call it.
C11_PassesSpaced ==
    [][(CvCallback /\ lastPath' # "throttled" /\ lastPass # -1)
       => 30 * (now' - lastPass) >= 1000]_vars

\* A pass got past the throttle after an earlier pass and a throttled call.
C11_Witness ==
    /\ IsCv
    /\ frames >= 3
    /\ lastPath # "throttled"
    /\ lastPass = now
    /\ now <= 1000 + 20 + 40

\* C12: with a static target (every raw sample is the same point p, history
\* empty at the start) the distance from the stabilized position to p never
\* grows from one frame to the next, and on no axis does the stabilized
\* position pass beyond p, for smoothingFactor in [0, 1].
C12_MonotonicApproach ==
    [][MindFilterCallback
       => LET p == targetPosition'
          IN  /\ DistanceToSquared(smoothedPosition', p) <= DistanceToSquared(smoothedPosition, p)
              /\ \A i \in 1..3 :
                   /\ smoothedPosition[i] <= p[i] => smoothedPosition'[i] <= p[i]
                   /\ smoothedPosition[i] >= p[i] => smoothedPosition'[i] >= p[i]]_vars

\* The stabilized position has moved toward a static target through more
\* frames than the history holds, with a factor strictly between 0 and 1.
C12_Witness ==
    /\ tracker = "mindar"
    /\ samples > historySize
    /\ lastPath = "updated"
    /\ factor \in {15, 50}
    /\ smoothedPosition # Zero3
    /\ smoothedPosition # targetPosition
    /\ \A i \in 1..Len(positionHistory) : positionHistory[i] = targetPosition

\* C13 as stated: with a static target p and smoothingFactor in (0, 1], for
\* every tolerance there is a frame after which the stabilized position stays
\* within the tolerance of p.  Stated here for the tolerance
\* movementThreshold / 2.
WithinHalfThreshold ==
    \/ ~isRunning
    \/ factor = 0
    \/ 4 * DistanceToSquared(smoothedPosition, targetPosition)
         <= movementThreshold * movementThreshold

WithinThreshold ==
    \/ ~isRunning
    \/ factor = 0
    \/ DistanceToSquared(smoothedPosition, targetPosition)
         < movementThreshold * movementThreshold

C14_HistoryDiscardedOnStop ==
    (tracker = "mindar" /\ stopped /\ ~isRunning)
    => (positionHistory = <<>> /\ quaternionHistory = <<>>)

\* C15: FaceOccluder.updateFace with an empty landmark set, or with one
\* shorter than the largest index of the selected subset, skips the rebuild:
\* the geometry's position attribute and index buffer stay as they were, and
\* nothing is thrown.
C15_ShortSetSkipsRebuild ==
    [][(/\ IsOccluder
        /\ frames' = frames + 1
        /\ \E j \in 1..Len(uniqueIndices) : landmarkCount' <= uniqueIndices[j])
       => /\ positionAttr' = positionAttr
          /\ indexBuf' = indexBuf
          /\ ~escaped']_vars

\* C16: SceneManager.updateFace called from the detector result callback with
\* an empty landmark set, or one that lacks landmark 1, 33, 263 or 152, lets
\* no exception leave the callback and leaves the face object's position and
\* rotation as they were.
C16_MissingLandmarkAbsorbed ==
    [][(/\ tracker = "scene"
        /\ frames' = frames + 1
        /\ landmarkCount' >= 0
        /\ landmarkCount' <= 263)
       => /\ ~escaped'
          /\ facePosition' = facePosition
          /\ faceRotation' = faceRotation]_vars

\* The pending model load settles in this step.
LoadSettles ==
    \/ tracker \in {"mindar", "mindarBasic", "script"} /\ startPc = "awaitLoad" /\ startPc' # "awaitLoad"
    \/ IsCv /\ initPc = "awaitModel" /\ initPc' # "awaitModel"

\* C17: when the GLTF load reports an error, the load resolves, a placeholder
\* cube is added, and startup goes on: the MindAR trackers and the page script
\* go on to start the engine, and the engine's start installs the render loop;
\* OpenCVTracker.init goes on to start the video.
C17_LoadFailureNonFatal ==
    [][/\ (LoadSettles /\ placed' # "gltf")
          => /\ placed' = "cube"
             /\ IF IsCv THEN initPc' = "awaitVideo" ELSE startPc' = "awaitEngine"
       /\ (placed = "cube" /\ startPc = "awaitEngine" /\ startPc' = "idle" /\ engine')
          => animationLoop' = "loop"]_vars

\* The render loop runs with the fallback cube in place of the model.
C17_Witness ==
    /\ placed = "cube"
    /\ \/ tracker \in {"mindar", "script"} /\ animationLoop = "loop" /\ frames > 0 /\ renderCalls = 1
       \/ tracker = "opencvStrict" /\ initPc = "initialized" /\ rafLoops > 0 /\ renderCalls = 1

\* C19 as stated: on a visible frame whose raw position is less than
\* movementThreshold away from the previous frame's raw position, the
\* stabilized pose after the frame is identical to the one before.
C19_SmallRawDeltaHoldsPose ==
    [][(/\ MindFilterCallback
        /\ anchorVisible
        /\ samples > 0
        /\ DistanceToSquared(anchorPosition, targetPosition)
             < movementThreshold * movementThreshold)
       => /\ smoothedPosition' = smoothedPosition
          /\ smoothedQuaternion' = smoothedQuaternion]_vars

\* C19 as amended: on a visible frame on which the rolling average of the
\* history with the new raw sample is less than movementThreshold away from
\* the previous stabilized position, the stabilized pose after the frame is
\* identical to the one before.
C19_SmallAverageDeltaHoldsPose ==
    [][(/\ MindFilterCallback
        /\ anchorVisible
        /\ DistanceToSquared(smoothedPosition,
                             AvgPosition(PushHistory(positionHistory, anchorPosition)))
             < movementThreshold * movementThreshold)
       => /\ smoothedPosition' = smoothedPosition
          /\ smoothedQuaternion' = smoothedQuaternion]_vars

\* A frame was discarded in the dead zone although the raw sample had moved
\* since the previous frame.
C19_Witness ==
    /\ tracker = "mindar"
    /\ lastPath = "deadZone"
    /\ Len(positionHistory) >= 3
    /\ positionHistory[Len(positionHistory)] # positionHistory[Len(positionHistory) - 1]

\* C20: on a frame whose rolling average has jumped by more than maxVelocity
\* since the last update, the velocity the smoothing stage consumes has
\* magnitude maxVelocity (within the rounding of one unit) and the stabilized
\* position moves by smoothingFactor times that velocity.
C20_CappedVelocityConsumed ==
    [][(/\ MindFilterCallback
        /\ lastPath' = "updated"
        /\ LengthSq(VSub(AvgPosition(positionHistory'), lastPosition))
             > maxVelocity * maxVelocity)
       => /\ LengthSq(velocity') >= (maxVelocity - 1) * (maxVelocity - 1)
          /\ LengthSq(velocity') <= (maxVelocity + 1) * (maxVelocity + 1)
          /\ smoothedPosition'
               = Lerp(smoothedPosition, VAdd(smoothedPosition, velocity'), factor)]_vars

\* C21: stop() on a MindARTracker whose engine was never started (no
\* mindarThree yet, or one that is not started) lets no exception out and
\* leaves the engine stopped, no animation loop and isRunning false, whether
\* mindarThree.stop() throws or not; cleanup() on an OpenCVTracker whose
\* init() has not run throws nothing, calls delete() on no handle and no
\* matrix, and stops no track.
C21_StopBeforeStartNoOp ==
    /\ (IsMind /\ ~engine)
       => \A throws \in BOOLEAN :
            LET o == MindStopOutcome(throws)
            IN  /\ ~o.escapes
                /\ o.engine = engine
                /\ o.animationLoop = "null"
                /\ o.isRunning = FALSE
    /\ (IsCv /\ initPc = "new")
       => \A throws \in BOOLEAN :
            /\ ~CleanupEscapes(throws)
            /\ \A n \in HandleNames : ~CleanupCalls(n, throws)
            /\ ~Releases(4, CleanupLastCall(throws))
            /\ StopTracks = tracksStopped

\* A MindARTracker that was initialised but whose engine did not start: the
\* start() call has settled with a failure, and stop() may be called.
C21_Witness ==
    /\ IsMind
    /\ mindarThree = "created"
    /\ placed # "none"
    /\ startPc = "idle"
    /\ ~engine
    /\ ~isRunning
    /\ ~stopped

\* The last n elements of a sequence.
LastN(h, n) == SubSeq(h, Len(h) - n + 1, Len(h))

\* The smaller of two numbers.
Min(a, b) == IF a <= b THEN a ELSE b

\* v is the arithmetic mean of the vectors of h, to the nearest unit.
IsMeanOf(v, h) ==
    \A i \in 1..3 :
      LET sum == SumAxis(h, i)
          off == Len(h) * v[i] - sum
      IN  2 * off <= Len(h) /\ 2 * off >= -Len(h)

\* C22: on every visible frame the history becomes the most recent
\* min(k, historySize) raw positions, k the number of visible frames so far,
\* the oldest sample leaving first; the rolling average of a frame that is
\* not discarded is the arithmetic mean of those samples, and it is exactly p
\* when the history holds historySize samples that are all p.
C22_RollingMean ==
    [][(MindFilterCallback /\ anchorVisible)
       => LET all == positionHistory \o <<anchorPosition>>
              k == Min(samples', historySize)
          IN  /\ samples' = samples + 1
              /\ Len(positionHistory) = Min(samples, historySize)
              /\ positionHistory' = LastN(all, k)
              /\ lastPath' = "updated"
                 => /\ IsMeanOf(lastPosition', LastN(all, k))
                    /\ (k = historySize /\ \A j \in 1..k : LastN(all, k)[j] = anchorPosition)
                       => lastPosition' = anchorPosition]_vars

\* After a sample at the far point, historySize frames at one other point
\* have pushed it out: the history holds that point only, and the average of
\* the latest frame was that point.
C22_Witness ==
    /\ tracker = "mindar"
    /\ samples > historySize
    /\ lastPath = "updated"
    /\ smoothedPosition[2] > 1000
    /\ lastPosition = targetPosition
    /\ targetPosition # FarPoint
    /\ \A j \in 1..Len(positionHistory) : positionHistory[j] = targetPosition

\* The position the smoothing stage approaches in this step: the rolling
\* average of the history (filtering tracker), the raw position (lerp-only
\* tracker).
ApproachTarget ==
    IF tracker = "mindar" THEN AvgPosition(LastN(positionHistory \o <<anchorPosition>>,
                                                 Min(Len(positionHistory) + 1, historySize)))
    ELSE anchorPosition

\* new = old + (target - old) * factor on every axis, to the nearest unit.
IsApproachStep(old, new, target) ==
    \A i \in 1..3 :
      LET off == 100 * (new[i] - old[i]) - (target[i] - old[i]) * factor
      IN  off <= 50 /\ off >= -50

\* C23: on every visible frame of a running MindARTracker that the dead zone
\* does not discard, the new stabilized position is the old one plus
\* (rolling-average position - old stabilized position) * smoothingFactor,
\* and the anchor receives that value.
C23_ExponentialApproach ==
    [][(/\ IsMind
        /\ frames' = frames + 1
        /\ isRunning
        /\ anchorVisible
        /\ tracker = "mindar"
           => DistanceToSquared(smoothedPosition, ApproachTarget)
                >= movementThreshold * movementThreshold)
       => /\ IsApproachStep(smoothedPosition, smoothedPosition', ApproachTarget)
          /\ anchorPosition' = smoothedPosition']_vars

\* The filtering tracker has moved its stabilized position on a frame whose
\* rolling average covers several different samples.
C23_Witness ==
    /\ tracker = "mindar"
    /\ lastPath = "updated"
    /\ Len(positionHistory) >= 3
    /\ positionHistory[1] # positionHistory[2]
    /\ lastPosition # targetPosition
    /\ smoothedPosition # Zero3
    /\ anchorPosition = smoothedPosition

\* The matrix findHomography returned in this step of the strict variant,
\* with the model loaded.
StrictUpdate ==
    /\ CvCallback
    /\ tracker = "opencvStrict"
    /\ model # "null"
    /\ homography'.id # homography.id
    /\ homography'.m \in DOMAIN AllHomographies

\* The reference image's centre under the matrix of this step, in pixels.
CentreInFrame == PerspectiveTransform(AllHomographies[homography'.m], RefCenter)

\* C24: strict variant: when the reference image's centre lands at x < -W,
\* x > 2W, y < -H or y > 2H under the homography, the smoothed position,
\* rotation and scale and the model's position, rotation and scale keep
\* their values; when it lands inside those bounds and the scale is in
\* [0.1, 5.0], the smoothed position moves by smoothingFactor toward the
\* scene point of the centre, the model takes the smoothed pose and is shown.
C24_FarPointRejected ==
    [][StrictUpdate
       => LET x == CentreInFrame[1]
              y == CentreInFrame[2]
              twice == ScaleSum(AllHomographies[homography'.m])
              point == <<RoundDiv((2 * x - 640) * visibleHeightAtZ0, 2 * 480),
                         -RoundDiv((2 * y - 480) * visibleHeightAtZ0, 2 * 480), 0>>
          IN  IF x < -640 \/ x > 1280 \/ y < -480 \/ y > 960
              THEN UNCHANGED <<smoothedPosition, smoothedRotation, smoothedScale,
                               modelPosition, modelRotation, modelScale>>
              ELSE (twice >= 20 /\ twice <= 1000)
                   => /\ smoothedPosition' = Lerp(smoothedPosition, point, 5)
                      /\ modelPosition' = smoothedPosition'
                      /\ modelRotation' = smoothedRotation'
                      /\ modelScale' = smoothedScale'
                      /\ modelVisible']_vars

\* After an accepted update, a homography that puts the centre one pixel
\* beyond a bound has been rejected.
C24_Witness ==
    /\ tracker = "opencvStrict"
    /\ model # "null"
    /\ lastPath = "homography"
    /\ homography.m \in {"offLeft", "offRight", "offTop", "offBottom"}
    /\ smoothedPosition # Zero3
    /\ modelPosition = smoothedPosition

\* C25: a detection pass that yields no frame descriptors is treated as a
\* missing observation: after the pass isTracking is false, the smoothed
\* position, rotation and scale are unchanged, and a loaded model is hidden
\* on that render.
C25_NoDescriptorsIsLoss ==
    [][(CvCallback /\ lastPath' = "noDescriptors")
       => /\ isTracking' = FALSE
          /\ UNCHANGED <<smoothedPosition, smoothedRotation, smoothedScale>>
          /\ model # "null" => ~modelVisible']_vars

\* The number of boundary vertices of the rebuild of this step: the selected
\* landmarks that the set holds.
BoundaryCount ==
    Cardinality({j \in 1..Len(uniqueIndices) : uniqueIndices[j] < landmarkCount'})

\* The geometry after this step is a fan of n triangles around the centroid
\* of its first n vertices, which is the last vertex.
IsCentroidFan(n) ==
    /\ Len(positionAttr') = n + 1
    /\ IsMeanOf(positionAttr'[n + 1], SubSeq(positionAttr', 1, n))
    /\ Len(indexBuf') = n
    /\ \A i \in 0..(n - 1) : indexBuf'[i + 1] = <<n, i, (i + 1) % n>>

\* C26 as stated: every rebuild by FaceOccluder.updateFace, in either
\* variant, yields n + 1 vertices for n boundary vertices, the last one their
\* centroid, and exactly the n triangles (n, i, (i + 1) mod n).
C26_CentroidFan ==
    [][(IsOccluder /\ frames' = frames + 1 /\ lastPath' = "rebuilt")
       => IsCentroidFan(BoundaryCount)]_vars

\* C26 as amended: the first variant yields n + 1 vertices, the last one the
\* centroid of the n boundary vertices, and the n triangles
\* (n, i, (i + 1) mod n); the second variant yields the n boundary vertices
\* alone and the triangles (0, i, i + 1) for i = 1 .. n - 2, none when n < 3.
C26_FanByVariant ==
    [][(IsOccluder /\ frames' = frames + 1 /\ lastPath' = "rebuilt")
       => LET n == BoundaryCount
          IN  IF tracker = "occluder"
              THEN IsCentroidFan(n)
              ELSE /\ Len(positionAttr') = n
                   /\ Len(indexBuf') = (IF n >= 3 THEN n - 2 ELSE 0)
                   /\ \A i \in 1..Len(indexBuf') : indexBuf'[i] = <<0, i, i + 1>>]_vars

\* The first variant has rebuilt the mesh from a full landmark set: 70
\* boundary vertices, the centre and 70 triangles, the last one closing the
\* fan.
C26_Witness ==
    /\ tracker = "occluder"
    /\ lastPath = "rebuilt"
    /\ landmarkCount = 468
    /\ Len(positionAttr) = 71
    /\ Len(indexBuf) = 70
    /\ indexBuf[70] = <<70, 69, 0>>

\* C27: when cleanup() has run on an OpenCVTracker, no native handle the
\* tracker acquired is still live (reference image, keypoints, descriptors,
\* the ORB detector, the BFMatcher) and delete() has been called on every
\* matrix findHomography returned, not only on the latest.
C27_CleanupReleasesAll ==
    [][(IsCv /\ deleteCalls'["referenceImage"] > deleteCalls["referenceImage"])
       => /\ \A n \in HandleNames : handles'[n] # "live"
          /\ \A i \in DOMAIN matDeleteCalls' : matDeleteCalls'[i] >= 1]_vars

\* C28: when stop() was called on a MindARTracker while a start() call was
\* suspended and no start() was called since, then once that start() has
\* settled the tracker is not running: isRunning is false and no
\* animation-loop callback is installed.
C28_StopCancelsPendingStart ==
    (IsMind /\ stopped /\ startPc = "idle")
    => (~isRunning /\ animationLoop = "null")

\* C29: the scale the OpenCVTracker smooths and applies to the model lies in
\* [0.1, 5.0]: the target of every accepted update is in the band, and
\* smoothedScale and the model's scale never leave it.
C29_ScaleInBand ==
    [][CvCallback
       => /\ smoothedScale' >= 1000 /\ smoothedScale' <= 50000
          /\ modelScale' >= 1000 /\ modelScale' <= 50000
          /\ (homography'.id # homography.id /\ homography'.m \in DOMAIN AllHomographies
              /\ Target(AllHomographies[homography'.m]).accepted)
             => /\ Target(AllHomographies[homography'.m]).scale >= 1000
                /\ Target(AllHomographies[homography'.m]).scale <= 50000]_vars

\* C30: every raw sample a render-loop callback of a running MindARTracker
\* reads from the anchor is a pose the detector wrote; the filter never reads
\* back the stabilized pose it wrote to the anchor on an earlier frame.
C30_RawSampleFromDetector ==
    [][(IsMind /\ frames' = frames + 1 /\ isRunning /\ anchorVisible)
       => \E pose \in RawPoses :
            targetPosition' = pose[1] /\ targetQuaternion' = pose[2]]_vars

\* C31: after every render() call of the OpenCVTracker with a model in the
\* scene, the model being visible implies that isTracking is true.
C31_VisibleImpliesTracking ==
    [][(CvCallback /\ model # "null") => (modelVisible' => isTracking')]_vars

\* The model was shown at an estimated pose and a later pass with too few
\* matches has hidden it.
C31_Witness ==
    /\ IsCv
    /\ model # "null"
    /\ lastPath = "fewMatches"
    /\ ~isTracking
    /\ ~modelVisible
    /\ modelPosition # Zero3

\* After this step the smoothed pose and the model's position and rotation
\* are still the constructor's: no update has been accepted.
NeverEstimated ==
    /\ smoothedPosition' = Zero3
    /\ smoothedRotation' = 0
    /\ smoothedScale' = 10000
    /\ modelPosition' = Zero3
    /\ modelRotation' = 0

\* C32: strict variant: a render() that draws the scene before any pose
\* update was accepted by update3DObject does not show the model.
C32_HiddenUntilFirstPose ==
    [][(/\ CvCallback
        /\ tracker = "opencvStrict"
        /\ model # "null"
        /\ renderCalls' = 1
        /\ NeverEstimated)
       => ~modelVisible']_vars

\* C33 as stated: on a render() inside the throttle interval lastFrameTime,
\* isTracking, homography and the smoothed position, rotation and scale are
\* unchanged, and a model in the scene has the visibility it had before.
C33_ThrottledChangesNothing ==
    [][(CvCallback /\ lastPath' = "throttled")
       => /\ UNCHANGED <<lastFrameTime, isTracking, homography,
                         smoothedPosition, smoothedRotation, smoothedScale>>
          /\ model # "null" => modelVisible' = modelVisible]_vars

\* C33 as amended: on a render() inside the throttle interval lastFrameTime,
\* isTracking, homography and the smoothed position, rotation and scale are
\* unchanged; a model in the scene keeps its visibility when isTracking is
\* true and is hidden when isTracking is false, which changes the visibility
\* only of a model added to the scene since the previous render.
C33_ThrottledKeepsPose ==
    [][(CvCallback /\ lastPath' = "throttled")
       => /\ UNCHANGED <<lastFrameTime, isTracking, homography,
                         smoothedPosition, smoothedRotation, smoothedScale>>
          /\ model # "null" => modelVisible' = (modelVisible /\ isTracking)
          /\ (model # "null" /\ modelVisible' # modelVisible)
             => (modelPosition = Zero3 /\ modelRotation = 0 /\ ~isTracking)]_vars

\* A throttled render() after a pass that showed the model at an estimated
\* pose: the model is still shown.
C33_Witness ==
    /\ IsCv
    /\ model # "null"
    /\ lastPath = "throttled"
    /\ isTracking
    /\ modelVisible
    /\ modelPosition # Zero3
    /\ lastFrameTime < now

\* C34: for any sequence of start() and stop() calls at most one
\* requestAnimationFrame loop of a tracker is active, so render() runs no
\* more than once per display refresh.
C34_AtMostOneLoop == IsCv => rafLoops <= 1

\* C35: every detection pass that gets past the throttle check releases each
\* native object it allocated in that pass before it returns, on every exit
\* path including the one through the catch block.
C35_TemporariesReleased ==
    [][(CvCallback /\ lastPath' \notin {"throttled", "noVideo"}) => liveTemps' = {}]_vars

\* The markers of the pool that are visible.
VisibleMarkers == {i \in 1..Len(handObjects) : handObjects[i].visible}

\* The landmarks of the hands i.. of a result.
RECURSIVE SumSeq(_, _)
SumSeq(s, i) == IF i > Len(s) THEN 0 ELSE s[i] + SumSeq(s, i + 1)

\* C36: after every updateHands call exactly the first min(N, 42) pool
\* objects are visible, N being the number of landmarks over all hands of the
\* result (none when it carries no multiHandLandmarks), and the pool has 42
\* objects after any number of calls.
C36_MarkerPool ==
    [][HandsResults
       => /\ Len(handObjects') = 42
          /\ \A r \in HandResultSet :
               handObjects' = UpdateHands(handObjects, r)
               => /\ Cardinality({i \in 1..42 : handObjects'[i].visible})
                       = Min(SumSeq(r.hands, 1), 42)
                  /\ \A i \in 1..42 :
                       handObjects'[i].visible <=> i <= SumSeq(r.hands, 1)]_vars

\* A call with more landmarks than the pool holds, on a pool that an earlier
\* call had made.
C36_Witness ==
    /\ IsHands
    /\ lastPath = "hands"
    /\ frames >= 2
    /\ Cardinality(VisibleMarkers) = 42

\* C37: once hand tracking is switched off and no hand result is in flight,
\* no hand marker is visible on a rendered frame.
C37_MarkersGoneWhenOff ==
    [][(HandsAnimate /\ ~isHandTrackingEnabled /\ handPc # "awaitHand")
       => VisibleMarkers = {}]_vars

\* C38: downloadMindFile() triggers a download exactly when a compile() has
\* completed successfully since construction or the last reset(), and throws
\* otherwise; compile() with no image rejects without invoking the compiler
\* and leaves compiledData unchanged; reset() leaves no images and no
\* compiled data.
C38_CallProtocol ==
    [][/\ ToolDownload
          => /\ lastPath' = "downloaded" <=> compiledSinceReset
             /\ lastPath' = "downloadThrew" <=> ~compiledSinceReset
       /\ (ToolCompile /\ images = <<>>)
          => /\ lastPath' = "compileRejected"
             /\ UNCHANGED <<compiledData, compiles>>
       /\ ToolReset => (images' = <<>> /\ compiledData' = -1)]_vars

\* A download after a reset and a compile() that completed after it.
C38_Witness ==
    /\ tracker = "compiler"
    /\ lastPath = "downloaded"
    /\ images = <<>>
    /\ compiledSinceReset
    /\ frames = 4

\* The landmark indices of uniqueIndices that a set of n landmarks holds.
SelectedLandmarks(n) == {uniqueIndices[j] : j \in {i \in DOMAIN uniqueIndices : uniqueIndices[i] < n}}

\* C39: for every non-empty landmark set, every entry of the index buffer
\* written refers to a vertex written, each selected landmark index gives at
\* most one vertex, and the centre of the first variant is a mean over at
\* least one vertex, so every coordinate written is a finite number.
C39_IndexValidity ==
    [][(OccluderUpdateFace /\ landmarkCount' > 0)
       => /\ \A t \in DOMAIN indexBuf' : \A c \in 1..3 :
               indexBuf'[t][c] >= 0 /\ indexBuf'[t][c] < Len(positionAttr')
          /\ Cardinality({uniqueIndices[j] : j \in DOMAIN uniqueIndices}) = Len(uniqueIndices)
          /\ Len(positionAttr') = Cardinality(SelectedLandmarks(landmarkCount'))
                                    + (IF tracker = "occluder" THEN 1 ELSE 0)
          /\ tracker = "occluder" => Len(positionAttr') >= 2
          /\ \A v \in DOMAIN positionAttr' : \A c \in 1..3 : positionAttr'[v][c] \in Int]_vars

\* The face oval of a whole face mesh, triangulated.
C39_Witness ==
    /\ tracker = "occluderBody"
    /\ lastPath = "rebuilt"
    /\ landmarkCount = 468
    /\ Len(positionAttr) = 36
    /\ Len(indexBuf) = 34

====
